---- MODULE Spec2Model ----
(***************************************************************************)
(* Model of the Instyle Kenya UI test-automation suite.                    *)
(*                                                                         *)
(* Part A  (SpecFixture): life cycle of the `driver` pytest fixture of     *)
(*         tests/conftest.py around a scenario body.                       *)
(* Part B  (SpecWait, FairSpecWait): the wait-based operations of          *)
(*         pages/base_page.py on one locator of a page that changes        *)
(*         under the caller.                                               *)
(* Part C  (SpecForm): LoginPage.login / get_error_message,                *)
(*         RegistrationPage.register_user and                              *)
(*         ForgotPasswordPage.reset_password against a site that answers   *)
(*         a submitted form in any of its ways.                            *)
(* Part D  (SpecCart): ProductPage.add_to_cart, the CartPage queries and   *)
(*         remove_item, and the cart scenarios of tests/.                  *)
(* Part E  (SpecEmail): the e-mail addresses the registration scenarios    *)
(*         generate, with the scenarios spread over parallel workers.      *)
(* Part F  (SpecLocator): lookups by the selector lists of LoginPage.      *)
(* Part G  (SpecSearch): HomePage.search_for_product and                   *)
(*         SearchResultsPage.is_loaded.                                    *)
(* Part H  (SpecRunner): the command-line runner run_tests.py.             *)
(* Part I  (SpecOptions): Config.get_browser_options.                      *)
(* Part J  (SpecScreenshot): take_screenshot and the output directories.   *)
(* Part K  (SpecPageLoad): BasePage.wait_for_page_load.                    *)
(* Part L  (SpecWishlist): WishlistPage.add_all_to_cart.                   *)
(* Part M  (SpecLinks): TestHelpers.verify_links_are_working.              *)
(* Part N  (SpecShop): ShopPage.open_shop_page and the filters.            *)
(***************************************************************************)
EXTENDS Integers, Sequences, FiniteSets, TLC

(***************************************************************************)
(* Bounds                                                                  *)
(***************************************************************************)
NumScenarios == 2
MaxBodySteps == 2
MaxTimeout == 2       \* timeouts a caller passes explicitly: 1..MaxTimeout
MaxElems == 2         \* elements of the page that match the locator
MaxItems == 2         \* elements of the cart page that match CART_ITEMS
MaxCalls == 3         \* page-object calls of a scenario on one page
NumWorkers == 2       \* workers of the parallel run
TicksPerSecond == 2   \* resolution of the modelled clock
MaxClock == 4         \* ticks of the clock in one run

(***************************************************************************)
(* Program constants.  Time is counted in poll intervals of the wait.      *)
(***************************************************************************)
EXPLICIT_WAIT == 20
IS_VISIBLE_TIMEOUT == 5
\* The longest selector list of pages/login_page.py (CREATE_ACCOUNT_LINK).
MaxAlternatives == 4

Scenarios == 1..NumScenarios

VARIABLES
    phase,        \* A: per scenario, position in the fixture/body protocol
    session,      \* A: per scenario, "none" | "open" | "closed"
    quitCalls,    \* A: per scenario, number of driver_instance.quit() calls
    bodyPos,      \* A: per scenario, statements of the body already executed
    killed,       \* A: per scenario, TRUE once the runner killed the scenario
    bodyEnd       \* A: per scenario, how the body ended: "returned" | "raised"

VARIABLES
    wpc,          \* B: "idle" | "waiting" | "act" | "returned"
    wop,          \* B: the base operation in progress
    wclear,       \* B: the `clear` argument of send_keys_to_element
    wtimeout,     \* B: the effective timeout of the call
    elapsed,      \* B: poll intervals slept since the wait began
    polls,        \* B: evaluations of the wait condition in this call
    hits,         \* B: evaluations at which the condition held
    lastPoll,     \* B: value of elapsed at the latest evaluation
    everHeld,     \* B: the condition held on the page at some moment of the call
    dom,          \* B: what the locator matches on the page
    health,       \* B: "ok" | "crashed" state of the browser session
    wres,         \* B: outcome of the call
    effects       \* B: page inputs performed by the call

VARIABLES
    fpc,          \* C: position inside the page-object operation
    fop,          \* C: the page-object operation in progress or just ended
    fargs,        \* C: its arguments (remember_me, keys of user_data)
    site,         \* C: the page shown by the browser
    fhealth,      \* C: "ok" | "crashed" state of the browser session
    fres,         \* C: what the operation returned ("none" while running)
    fx,           \* C: what the operation did to the page, and how it ended
    gem           \* C: outcome of a following get_error_message()

VARIABLES
    cpage,        \* D: the shop page shown by the browser
    chealth,      \* D: "ok" | "crashed" state of the browser session
    clog          \* D: the calls made on this page, oldest first

VARIABLES
    clock,        \* E: wall-clock time, in ticks of 1/TicksPerSecond second
    todo,         \* E: registration scenarios not yet handed to a worker
    wstate,       \* E: per worker, the scenario it runs and how far it is
    sent          \* E: the e-mail addresses submitted, with their scenario

VARIABLES
    lloc,         \* F: the locator constant the scenario looks up
    lmatch,       \* F: its alternatives that select an element of the page
    lop,          \* F: the lookup made, "none" before it
    lres          \* F: how the lookup ended

VARIABLES
    spc,          \* G: position inside search_for_product
    spage,        \* G: the page shown by the browser
    shealth,      \* G: "ok" | "crashed" state of the browser session
    sfx,          \* G: what the search did to the page
    sres,         \* G: what search_for_product returned ("none" while running)
    sloaded       \* G: outcome of a following SearchResultsPage.is_loaded()

VARIABLES
    rpc,          \* H: position inside main() of run_tests.py
    rargs,        \* H: the command line of the run
    renv,         \* H: the working directory and the installed packages
    rrun,         \* H: how the launch of pytest went ("none" before it)
    rcmd,         \* H: the pytest command line handed to the shell
    rtrace,       \* H: what the runner did, oldest first
    rexit         \* H: exit status of the process, -1 while it runs

VARIABLES
    oheadless,    \* I: Config.HEADLESS
    olog          \* I: the calls of get_browser_options so far, oldest first

VARIABLES
    jdir,         \* J: whether the directory screenshots/ exists
    jhealth,      \* J: "ok" | "crashed" state of the browser session
    jlog          \* J: the take_screenshot calls so far, oldest first

VARIABLES
    kpc,          \* K: "idle" | "waiting" | "returned" position of the call
    ktimeout,     \* K: the `timeout` argument of the call
    kelapsed,     \* K: poll intervals slept since the call began
    kready,       \* K: whether document.readyState is "complete"
    khealth,      \* K: "ok" | "crashed" state of the browser session
    kres          \* K: "none" | "True" | "False" | "WebDriverException"

VARIABLES
    wlpc,         \* L: "off" | "idle" | "loop" | "done" position of add_all_to_cart
    wlinit,       \* L: number of items of the wishlist when the page was loaded
    wlitems,      \* L: the items on the page now, in document order
    wlreacts,     \* L: "removes" | "keeps": what the site does with an added item
    wlclicks,     \* L: per item, the clicks its add-to-cart button has received
    wlloop,       \* L: item_count, i and success_count of the running loop
    wlhealth,     \* L: "ok" | "crashed" state of the browser session
    wlres         \* L: "none" | "True" | "False" result of add_all_to_cart

VARIABLES
    vpc,          \* M: "idle" | "loop" | "done" position of verify_links_are_working
    vlinks,       \* M: the argument `links`
    vmax,         \* M: the argument `max_links`
    vi,           \* M: number of links the loop has dealt with
    vresults      \* M: the dict `results`

VARIABLES
    npage,        \* N: the page the session shows: its URL and visible controls
    nhealth,      \* N: "ok" | "crashed" state of the browser session
    nlog          \* N: the ShopPage calls so far, oldest first

varsA == <<phase, session, quitCalls, bodyPos, killed, bodyEnd>>
varsB == <<wpc, wop, wclear, wtimeout, elapsed, polls, hits, lastPoll,
           everHeld, dom, health, wres, effects>>
varsC == <<fpc, fop, fargs, site, fhealth, fres, fx, gem>>
varsD == <<cpage, chealth, clog>>
varsE == <<clock, todo, wstate, sent>>
varsF == <<lloc, lmatch, lop, lres>>
varsG == <<spc, spage, shealth, sfx, sres, sloaded>>
varsH == <<rpc, rargs, renv, rrun, rcmd, rtrace, rexit>>
varsI == <<oheadless, olog>>
varsJ == <<jdir, jhealth, jlog>>
varsK == <<kpc, ktimeout, kelapsed, kready, khealth, kres>>
varsL == <<wlpc, wlinit, wlitems, wlreacts, wlclicks, wlloop, wlhealth, wlres>>
varsM == <<vpc, vlinks, vmax, vi, vresults>>
varsN == <<npage, nhealth, nlog>>
varsIN == <<varsI, varsJ, varsK, varsL, varsM, varsN>>
vars == <<varsA, varsB, varsC, varsD, varsE, varsF, varsG, varsH, varsIN>>
OutsideI == <<varsA, varsB, varsC, varsD, varsE, varsF, varsG, varsH, varsJ, varsK, varsL, varsM, varsN>>
OutsideJ == <<varsA, varsB, varsC, varsD, varsE, varsF, varsG, varsH, varsI, varsK, varsL, varsM, varsN>>
OutsideK == <<varsA, varsB, varsC, varsD, varsE, varsF, varsG, varsH, varsI, varsJ, varsL, varsM, varsN>>
OutsideL == <<varsA, varsB, varsC, varsD, varsE, varsF, varsG, varsH, varsI, varsJ, varsK, varsM, varsN>>
OutsideM == <<varsA, varsB, varsC, varsD, varsE, varsF, varsG, varsH, varsI, varsJ, varsK, varsL, varsN>>
OutsideN == <<varsA, varsB, varsC, varsD, varsE, varsF, varsG, varsH, varsI, varsJ, varsK, varsL, varsM>>

(***************************************************************************)
(* Part A: tests/conftest.py                                               *)
(*                                                                         *)
(*   @pytest.fixture                                                       *)
(*   def driver():                                                         *)
(*       driver_instance = DriverFactory.create_driver()                   *)
(*       yield driver_instance                                             *)
(*       driver_instance.quit()                                            *)
(*                                                                         *)
(* pytest runs the generator up to the yield before the body, keeps it     *)
(* suspended while the body runs, and resumes it once after the body has   *)
(* ended, whatever the body's outcome: an exception of the body is never   *)
(* thrown into the generator.                                              *)
(***************************************************************************)
InitA ==
    /\ phase = [s \in Scenarios |-> "collected"]
    /\ session = [s \in Scenarios |-> "none"]
    /\ quitCalls = [s \in Scenarios |-> 0]
    /\ bodyPos = [s \in Scenarios |-> 0]
    /\ killed = [s \in Scenarios |-> FALSE]
    /\ bodyEnd = [s \in Scenarios |-> "none"]

\* DriverFactory.create_driver(): webdriver.Chrome(...) either returns a
\* session or raises (driver binary missing, browser does not start).
create_driver(s) ==
    /\ phase[s] = "collected"
    /\ \E started \in BOOLEAN :
         IF started
         THEN /\ session' = [session EXCEPT ![s] = "open"]
              /\ phase' = [phase EXCEPT ![s] = "running"]
         ELSE /\ session' = session
              /\ phase' = [phase EXCEPT ![s] = "setup_error"]
    /\ UNCHANGED <<quitCalls, bodyPos, killed, bodyEnd, varsB, varsC,
                   varsD, varsE, varsF, varsG, varsH, varsIN>>

\* One statement of the scenario body.
body_step(s) ==
    /\ phase[s] = "running"
    /\ bodyPos[s] < MaxBodySteps
    /\ bodyPos' = [bodyPos EXCEPT ![s] = @ + 1]
    /\ UNCHANGED <<phase, session, quitCalls, killed, bodyEnd, varsB, varsC,
                   varsD, varsE, varsF, varsG, varsH, varsIN>>

\* The body returns normally.
body_return(s) ==
    /\ phase[s] = "running"
    /\ phase' = [phase EXCEPT ![s] = "returned"]
    /\ bodyEnd' = [bodyEnd EXCEPT ![s] = "returned"]
    /\ UNCHANGED <<session, quitCalls, bodyPos, killed, varsB, varsC,
                   varsD, varsE, varsF, varsG, varsH, varsIN>>

\* The body raises midway (assertion failure, pytest.skip, driver error).
body_raise(s) ==
    /\ phase[s] = "running"
    /\ phase' = [phase EXCEPT ![s] = "raised"]
    /\ bodyEnd' = [bodyEnd EXCEPT ![s] = "raised"]
    /\ UNCHANGED <<session, quitCalls, bodyPos, killed, varsB, varsC,
                   varsD, varsE, varsF, varsG, varsH, varsIN>>

\* The runner kills a running scenario from outside.  Either the kill is
\* delivered into the body as an exception (interrupt, in-process timeout),
\* or the worker process is ended and executes nothing any more.
kill(s) ==
    /\ phase[s] = "running"
    /\ killed' = [killed EXCEPT ![s] = TRUE]
    /\ \E delivery \in {"exception", "process_end"} :
         IF delivery = "exception"
         THEN /\ phase' = [phase EXCEPT ![s] = "raised"]
              /\ bodyEnd' = [bodyEnd EXCEPT ![s] = "raised"]
         ELSE /\ phase' = [phase EXCEPT ![s] = "terminated"]
              /\ bodyEnd' = bodyEnd
    /\ UNCHANGED <<session, quitCalls, bodyPos, varsB, varsC,
                   varsD, varsE, varsF, varsG, varsH, varsIN>>

\* A teardown that is skipped when the body raised.
driver_teardown_on_return_only(s) ==
    /\ phase[s] \in {"returned", "raised"}
    /\ phase' = [phase EXCEPT ![s] = "finished"]
    /\ IF phase[s] = "returned"
       THEN /\ quitCalls' = [quitCalls EXCEPT ![s] = @ + 1]
            /\ session' = [session EXCEPT ![s] = "closed"]
       ELSE UNCHANGED <<quitCalls, session>>
    /\ UNCHANGED <<bodyPos, killed, bodyEnd, varsB, varsC,
                   varsD, varsE, varsF, varsG, varsH, varsIN>>

\* The code after the yield: driver_instance.quit().
driver_teardown(s) ==
    /\ phase[s] \in {"returned", "raised"}
    /\ phase' = [phase EXCEPT ![s] = "finished"]
    /\ quitCalls' = [quitCalls EXCEPT ![s] = @ + 1]
    /\ session' = [session EXCEPT ![s] = "closed"]
    /\ UNCHANGED <<bodyPos, killed, bodyEnd, varsB, varsC,
                   varsD, varsE, varsF, varsG, varsH, varsIN>>

NextA ==
    \E s \in Scenarios :
        \/ create_driver(s)
        \/ body_step(s)
        \/ body_return(s)
        \/ body_raise(s)
        \/ kill(s)
        \/ driver_teardown(s)

(***************************************************************************)
(* Part B: pages/base_page.py, the wait-based operations.                  *)
(*                                                                         *)
(* Every operation builds WebDriverWait(self.driver, timeout).until(cond): *)
(* the wait evaluates cond, returns its value when it is truthy, otherwise *)
(* sleeps one poll interval, and raises TimeoutException once the timeout  *)
(* has elapsed.  The wait ignores "no such element" (cond is then false);  *)
(* every other driver error leaves the wait at once.  The operations catch *)
(* TimeoutException alone.                                                 *)
(***************************************************************************)
BaseOps == {"find_element", "find_elements", "is_element_visible",
            "click_element", "send_keys_to_element", "get_element_text"}

\* What the locator matches: `matches` elements in document order, the
\* first of them hidden, visible, or visible and enabled.
ElemStates == {"hidden", "visible", "clickable"}
Doms == [matches : 0..MaxElems, first : ElemStates]
NoMatch == [matches |-> 0, first |-> "hidden"]
DomStates == {d \in Doms : d.matches = 0 => d = NoMatch}

\* EC.presence_of_element_located / visibility_of_element_located /
\* element_to_be_clickable, as used by each operation; all three look at
\* the first match.
Cond(op, d) ==
    CASE op \in {"find_element", "find_elements", "get_element_text"} ->
            d.matches >= 1
      [] op = "is_element_visible" ->
            d.matches >= 1 /\ d.first \in {"visible", "clickable"}
      [] op \in {"click_element", "send_keys_to_element"} ->
            d.matches >= 1 /\ d.first = "clickable"

\* `if timeout is None: timeout = Config.EXPLICIT_WAIT`; is_element_visible
\* has the default timeout 5 instead.
DefaultTimeout(op) ==
    IF op = "is_element_visible" THEN IS_VISIBLE_TIMEOUT ELSE EXPLICIT_WAIT

\* element.text of the first match: the rendered text, empty when hidden.
ElemText(d) == IF d.first = "hidden" THEN "" ELSE "text"

NoResult == [kind |-> "none", flag |-> FALSE, elems |-> {}, text |-> ""]
NoEffects == [clicks |-> 0, clears |-> 0, keys |-> 0]

Raise(exc) == [NoResult EXCEPT !.kind = exc]
ReturnBool(b) == [NoResult EXCEPT !.kind = "bool", !.flag = b]
ReturnElement(e) == [NoResult EXCEPT !.kind = "element", !.elems = {e}]
ReturnList(es) == [NoResult EXCEPT !.kind = "list", !.elems = es]
ReturnText(t) == [NoResult EXCEPT !.kind = "str", !.text = t]

\* Operations that let the TimeoutException of the wait escape.
OnTimeout_uncaught(op) == Raise("TimeoutException")

\* A find_element that answers a timeout with None.
OnTimeout_sentinel(op) ==
    CASE op = "find_element" -> [NoResult EXCEPT !.kind = "None"]
      [] op = "find_elements" -> ReturnList({})
      [] op = "get_element_text" -> ReturnText("")
      [] OTHER -> ReturnBool(FALSE)

\* The `except TimeoutException` branch of each operation.
OnTimeout(op) ==
    CASE op = "find_element" -> Raise("TimeoutException")
      [] op = "find_elements" -> ReturnList({})
      [] op = "get_element_text" -> ReturnText("")
      [] OTHER -> ReturnBool(FALSE)

InitB ==
    /\ wpc = "idle"
    /\ wop = "none"
    /\ wclear = TRUE
    /\ wtimeout = 0
    /\ elapsed = 0
    /\ polls = 0
    /\ hits = 0
    /\ lastPoll = 0
    /\ everHeld = FALSE
    /\ dom = NoMatch
    /\ health = "ok"
    /\ wres = NoResult
    /\ effects = NoEffects

\* A page object calls a base operation: op(locator[, text, clear][, timeout]).
call(op, given, t, clear) ==
    /\ wpc = "idle"
    /\ wpc' = "waiting"
    /\ wop' = op
    /\ wclear' = clear
    /\ wtimeout' = IF given THEN t ELSE DefaultTimeout(op)
    /\ elapsed' = 0
    /\ polls' = 0
    /\ hits' = 0
    /\ lastPoll' = 0
    /\ everHeld' = Cond(op, dom)
    /\ wres' = NoResult
    /\ effects' = NoEffects
    /\ UNCHANGED <<dom, health, varsA, varsC,
                   varsD, varsE, varsF, varsG, varsH, varsIN>>

\* A wait that sleeps on although its condition holds.
poll_sleeps_full_timeout ==
    /\ wpc = "waiting"
    /\ polls' = polls + 1
    /\ lastPoll' = elapsed
    /\ IF health = "crashed"
       THEN /\ wpc' = "returned"
            /\ wres' = Raise("WebDriverException")
            /\ UNCHANGED <<elapsed, hits>>
       ELSE IF Cond(wop, dom) /\ elapsed >= wtimeout
       THEN /\ hits' = hits + 1
            /\ UNCHANGED elapsed
            /\ IF wop = "find_element"
               THEN wpc' = "returned" /\ wres' = ReturnElement(1)
               ELSE IF wop = "is_element_visible"
               THEN wpc' = "returned" /\ wres' = ReturnBool(TRUE)
               ELSE wpc' = "act" /\ wres' = wres
       ELSE /\ hits' = hits + (IF Cond(wop, dom) THEN 1 ELSE 0)
            /\ elapsed' = elapsed + 1
            /\ IF elapsed + 1 > wtimeout
               THEN wpc' = "returned" /\ wres' = OnTimeout(wop)
               ELSE wpc' = "waiting" /\ wres' = wres
    /\ UNCHANGED <<wop, wclear, wtimeout, everHeld, dom, health, effects, varsA, varsC,
                   varsD, varsE, varsF, varsG, varsH, varsIN>>

\* One round of WebDriverWait.until: evaluate the condition; return on
\* success; otherwise sleep one interval and give up once the timeout has
\* elapsed.
poll ==
    /\ wpc = "waiting"
    /\ polls' = polls + 1
    /\ lastPoll' = elapsed
    /\ IF health = "crashed"
       THEN /\ wpc' = "returned"
            /\ wres' = Raise("WebDriverException")
            /\ UNCHANGED <<elapsed, hits>>
       ELSE IF Cond(wop, dom)
       THEN /\ hits' = hits + 1
            /\ UNCHANGED elapsed
            /\ IF wop = "find_element"
               THEN wpc' = "returned" /\ wres' = ReturnElement(1)
               ELSE IF wop = "is_element_visible"
               THEN wpc' = "returned" /\ wres' = ReturnBool(TRUE)
               ELSE wpc' = "act" /\ wres' = wres
       ELSE /\ UNCHANGED hits
            /\ elapsed' = elapsed + 1
            /\ IF elapsed + 1 > wtimeout
               THEN wpc' = "returned" /\ wres' = OnTimeout(wop)
               ELSE wpc' = "waiting" /\ wres' = wres
    /\ UNCHANGED <<wop, wclear, wtimeout, everHeld, dom, health, effects, varsA, varsC,
                   varsD, varsE, varsF, varsG, varsH, varsIN>>

\* A find_elements that returns the waited-for element alone.
Fetch_first_only(d) == IF d.matches >= 1 THEN {1} ELSE {}

\* self.driver.find_elements(*locator): every match of the page as it is now.
Fetch(d) == 1..d.matches

\* The statements after a successful wait: driver.find_elements(),
\* element.click(), element.clear() / element.send_keys(text), element.text.
\* The element handle is the one the wait returned; the driver refuses the
\* command when the session is gone, the element has left the page, or (for
\* input) the element cannot take the input any more.
act ==
    /\ wpc = "act"
    /\ wpc' = "returned"
    /\ IF health = "crashed"
       THEN wres' = Raise("WebDriverException") /\ effects' = effects
       ELSE CASE wop = "find_elements" ->
                   wres' = ReturnList(Fetch(dom)) /\ effects' = effects
              [] wop = "get_element_text" ->
                   IF dom.matches = 0
                   THEN wres' = Raise("WebDriverException") /\ effects' = effects
                   ELSE wres' = ReturnText(ElemText(dom)) /\ effects' = effects
              [] wop = "click_element" ->
                   IF ~Cond(wop, dom)
                   THEN wres' = Raise("WebDriverException") /\ effects' = effects
                   ELSE /\ wres' = ReturnBool(TRUE)
                        /\ effects' = [effects EXCEPT !.clicks = @ + 1]
              [] wop = "send_keys_to_element" ->
                   IF ~Cond(wop, dom)
                   THEN wres' = Raise("WebDriverException") /\ effects' = effects
                   ELSE /\ wres' = ReturnBool(TRUE)
                        /\ effects' = [effects EXCEPT
                                          !.clears = @ + (IF wclear THEN 1 ELSE 0),
                                          !.keys = @ + 1]
    /\ UNCHANGED <<wop, wclear, wtimeout, elapsed, polls, hits, lastPoll,
                   everHeld, dom, health, varsA, varsC,
                   varsD, varsE, varsF, varsG, varsH, varsIN>>

\* The site re-renders: the matches of the locator change under the caller.
page_change(d) ==
    /\ wpc # "returned"
    /\ d # dom
    /\ dom' = d
    /\ everHeld' = (everHeld \/ (wpc \in {"waiting", "act"} /\ Cond(wop, d)))
    /\ UNCHANGED <<wpc, wop, wclear, wtimeout, elapsed, polls, hits, lastPoll,
                   health, wres, effects, varsA, varsC,
                   varsD, varsE, varsF, varsG, varsH, varsIN>>

\* The browser session crashes or becomes unreachable.
session_crash ==
    /\ wpc # "returned"
    /\ health = "ok"
    /\ health' = "crashed"
    /\ UNCHANGED <<wpc, wop, wclear, wtimeout, elapsed, polls, hits, lastPoll,
                   everHeld, dom, wres, effects, varsA, varsC,
                   varsD, varsE, varsF, varsG, varsH, varsIN>>

\* The caller has taken the outcome; the next call may begin.
next_call ==
    /\ wpc = "returned"
    /\ wpc' = "idle"
    /\ UNCHANGED <<wop, wclear, wtimeout, elapsed, polls, hits, lastPoll,
                   everHeld, dom, health, wres, effects, varsA, varsC,
                   varsD, varsE, varsF, varsG, varsH, varsIN>>

NextB ==
    \/ \E op \in BaseOps, given \in BOOLEAN, t \in 1..MaxTimeout, clear \in BOOLEAN :
          call(op, given, t, clear)
    \/ poll
    \/ act
    \/ \E d \in DomStates : page_change(d)
    \/ session_crash
    \/ next_call

(***************************************************************************)
(* Part C: pages/login_page.py and pages/registration_page.py.             *)
(*                                                                         *)
(* login() and register_user() run inside `try: ... except Exception`,     *)
(* one base operation after the other.  A base operation on a live session *)
(* returns its success flag (the element was usable within the timeout or  *)
(* not); on a crashed session every driver command raises.  The site       *)
(* answers a submitted form with a verdict and a page: any URL, with or    *)
(* without an error element, with or without a success element.            *)
(***************************************************************************)
\* URLs as their path segments.  Config.URLS["login"] = BASE_URL +
\* "account/login", Config.URLS["register"] = BASE_URL + "account/register".
BlankUrl == << >>
LoginUrl == <<"account", "login">>
RegisterUrl == <<"account", "register">>
AccountUrl == <<"account">>
ChallengeUrl == <<"challenge">>
CapsLoginUrl == <<"Account", "Login">>
SiteUrls == {LoginUrl, RegisterUrl, AccountUrl, ChallengeUrl, CapsLoginUrl}

\* str.lower() on a path segment.
Lower(w) ==
    CASE w = "Account" -> "account"
      [] w = "Login" -> "login"
      [] w = "Search" -> "search"
      [] OTHER -> w

\* `word in self.get_current_url().lower()`
UrlContains(u, word) == \E i \in 1..Len(u) : Lower(u[i]) = word

PageUrl(p) == IF p = "login" THEN LoginUrl ELSE RegisterUrl

CheckboxStates == {"absent", "unchecked", "checked"}
ErrorTexts == {"Email required"}

BlankPage == [url |-> BlankUrl, err |-> FALSE, succ |-> FALSE, errText |-> "",
              checkbox |-> "absent", verdict |-> "none"]

\* The answers of the site to a submitted form.  An accepting answer shows
\* no error element, a rejecting answer no success element.
Responses ==
    {r \in [verdict : {"accepted", "rejected"}, url : SiteUrls,
            err : BOOLEAN, succ : BOOLEAN] :
        /\ (r.verdict = "accepted") => ~r.err
        /\ (r.verdict = "rejected") => ~r.succ}

Respond(pg, r) ==
    [url |-> r.url, err |-> r.err, succ |-> r.succ,
     errText |-> IF r.err THEN CHOOSE t \in ErrorTexts : TRUE ELSE "",
     checkbox |-> IF r.url = pg.url THEN pg.checkbox ELSE "absent",
     verdict |-> r.verdict]

Toggle(c) == IF c = "unchecked" THEN "checked"
             ELSE IF c = "checked" THEN "unchecked" ELSE c

\* user_data: which optional keys the dictionary holds ("email" and
\* "password" are always there).
UserKeys == {"first_name", "last_name", "phone", "subscribe_newsletter"}
FullUser == [k \in UserKeys |-> k # "subscribe_newsletter"]
MinimalUser == [k \in UserKeys |-> FALSE]
SubscribingUser == [k \in UserKeys |-> TRUE]
UserDatas == {FullUser, MinimalUser, SubscribingUser}

LoginSteps == <<"email", "password", "remember", "button", "load", "classify">>

\* A reset_password that clicks the button before it types the e-mail.
ResetSteps_button_first == <<"button", "email", "load", "classify">>

ResetSteps == <<"email", "button", "load", "classify">>
RegisterSteps == <<"first_name", "last_name", "email", "password",
                   "confirm_password", "phone", "terms", "privacy",
                   "newsletter", "button", "load", "classify">>

StepAfter(steps, cur) ==
    steps[(CHOOSE i \in 1..Len(steps) : steps[i] = cur) + 1]

NoFx == [typed |-> {}, clicked |-> {}, submitted |-> FALSE,
         driverError |-> FALSE, classified |-> FALSE, waited |-> FALSE,
         boxAtEntry |-> "absent", boxAtSubmit |-> "absent"]
NoGem == [called |-> FALSE, text |-> ""]

PyBool(b) == IF b THEN "True" ELSE "False"

\* A login that never looks for the error element.
LoginOutcome_optimistic(url, errVisible) == TRUE

\* A login that looks for the error element before it looks at the URL.
LoginOutcome_error_first(url, errVisible) ==
    IF errVisible THEN FALSE
    ELSE TRUE

\* login(), after the page-load wait:
\*   if "login" not in url: return True
\*   if is_element_visible(ERROR_MESSAGE, 3): return False
\*   return True
LoginOutcome(url, errVisible) ==
    IF ~UrlContains(url, "login") THEN TRUE
    ELSE IF errVisible THEN FALSE
    ELSE TRUE

\* A register_user that looks for the error element before the URL.
RegisterOutcome_error_first(succVisible, url, errVisible) ==
    IF succVisible THEN TRUE
    ELSE IF errVisible THEN FALSE
    ELSE TRUE

\* register_user(), after the page-load wait:
\*   if is_element_visible(SUCCESS_MESSAGE, 5): return True
\*   if "register" not in url: return True
\*   if is_element_visible(ERROR_MESSAGE, 3): return False
\*   return True
RegisterOutcome(succVisible, url, errVisible) ==
    IF succVisible THEN TRUE
    ELSE IF ~UrlContains(url, "register") THEN TRUE
    ELSE IF errVisible THEN FALSE
    ELSE TRUE

\* reset_password(), after the page-load wait:
\*   if is_element_visible(SUCCESS_MESSAGE, 5): return True
\*   if is_element_visible(ERROR_MESSAGE, 3): return False
\*   return True
ResetOutcome(succVisible, errVisible) ==
    IF succVisible THEN TRUE
    ELSE IF errVisible THEN FALSE
    ELSE TRUE

InitC ==
    /\ fpc = "idle"
    /\ fop = "none"
    /\ fargs = [remember_me |-> FALSE, user_data |-> MinimalUser]
    /\ site = BlankPage
    /\ fhealth = "ok"
    /\ fres = "none"
    /\ fx = NoFx
    /\ gem = NoGem

\* `except Exception as e: logger.error(...); return False`
Swallow ==
    /\ fres' = "False"
    /\ fpc' = "done"
    /\ fx' = [fx EXCEPT !.driverError = TRUE]
    /\ UNCHANGED <<fop, fargs, site, fhealth, gem>>

\* A required step failed: `logger.error(...); return False`
ReturnFalse ==
    /\ fres' = "False"
    /\ fpc' = "done"
    /\ UNCHANGED <<fop, fargs, site, fhealth, fx, gem>>

\* A step that needs no driver command, or whose result is not looked at.
Advance(steps) ==
    /\ fpc' = StepAfter(steps, fpc)
    /\ UNCHANGED <<fop, fargs, site, fhealth, fres, fx, gem>>

\* send_keys_to_element(locator, text) returned True.
Typed(steps) ==
    /\ fpc' = StepAfter(steps, fpc)
    /\ fx' = [fx EXCEPT !.typed = @ \cup {fpc}]
    /\ UNCHANGED <<fop, fargs, site, fhealth, fres, gem>>

\* The submit button was clicked and the site has answered with r; of the
\* login form, the state the remember-me checkbox went out with is kept.
Submitted(steps, r) ==
    /\ fpc' = StepAfter(steps, fpc)
    /\ fx' = [fx EXCEPT !.submitted = TRUE,
                        !.boxAtSubmit = IF fop = "login" THEN site.checkbox
                                        ELSE @]
    /\ site' = Respond(site, r)
    /\ UNCHANGED <<fop, fargs, fhealth, fres, gem>>

\* wait_for_page_load() has returned; the flag it returns is not looked at.
Waited(steps) ==
    /\ fpc' = StepAfter(steps, fpc)
    /\ fx' = [fx EXCEPT !.waited = TRUE]
    /\ UNCHANGED <<fop, fargs, site, fhealth, fres, gem>>

\* load(): go_to(Config.URLS[p]); nothing catches a driver error here.
load(p) ==
    /\ UNCHANGED <<varsA, varsB,
                   varsD, varsE, varsF, varsG, varsH, varsIN>>
    /\ fpc = "idle"
    /\ gem' = NoGem
    /\ IF fhealth = "crashed"
       THEN /\ fop' = "load"
            /\ fres' = "raised"
            /\ fpc' = "done"
            /\ site' = site
            /\ fx' = [NoFx EXCEPT !.driverError = TRUE]
       ELSE /\ fop' = "none"
            /\ fres' = "none"
            /\ fpc' = "idle"
            /\ fx' = NoFx
            /\ \E c \in CheckboxStates :
                  site' = [BlankPage EXCEPT !.url = PageUrl(p), !.checkbox = c]
    /\ UNCHANGED <<fargs, fhealth>>

\* login(email, password, remember_me) is entered.
login(remember_me) ==
    /\ UNCHANGED <<varsA, varsB,
                   varsD, varsE, varsF, varsG, varsH, varsIN>>
    /\ fpc = "idle"
    /\ fpc' = "email"
    /\ fop' = "login"
    /\ fargs' = [fargs EXCEPT !.remember_me = remember_me]
    /\ fres' = "none"
    /\ fx' = [NoFx EXCEPT !.boxAtEntry = site.checkbox]
    /\ gem' = NoGem
    /\ UNCHANGED <<site, fhealth>>

\* `if not self.send_keys_to_element(EMAIL_INPUT | PASSWORD_INPUT, ...)`
login_enter ==
    /\ UNCHANGED <<varsA, varsB,
                   varsD, varsE, varsF, varsG, varsH, varsIN>>
    /\ fop = "login"
    /\ fpc \in {"email", "password"}
    /\ IF fhealth = "crashed"
       THEN Swallow
       ELSE \E ok \in BOOLEAN :
               IF ok THEN Typed(LoginSteps) ELSE ReturnFalse

\* `if remember_me and self.is_element_present(REMEMBER_ME_CHECKBOX):
\*      self.click_element(REMEMBER_ME_CHECKBOX)`
login_remember_me ==
    /\ UNCHANGED <<varsA, varsB,
                   varsD, varsE, varsF, varsG, varsH, varsIN>>
    /\ fop = "login"
    /\ fpc = "remember"
    /\ IF ~fargs.remember_me
       THEN Advance(LoginSteps)
       ELSE IF fhealth = "crashed"
       THEN Swallow
       ELSE IF site.checkbox = "absent"
       THEN Advance(LoginSteps)
       ELSE \E ok \in BOOLEAN :
               IF ok
               THEN /\ fpc' = StepAfter(LoginSteps, fpc)
                    /\ site' = [site EXCEPT !.checkbox = Toggle(@)]
                    /\ fx' = [fx EXCEPT !.clicked = @ \cup {"remember"}]
                    /\ UNCHANGED <<fop, fargs, fhealth, fres, gem>>
               ELSE Advance(LoginSteps)

\* `if not self.click_element(LOGIN_BUTTON)`
login_click_button ==
    /\ UNCHANGED <<varsA, varsB,
                   varsD, varsE, varsF, varsG, varsH, varsIN>>
    /\ fop = "login"
    /\ fpc = "button"
    /\ IF fhealth = "crashed"
       THEN Swallow
       ELSE \E ok \in BOOLEAN :
               IF ok
               THEN \E r \in Responses : Submitted(LoginSteps, r)
               ELSE ReturnFalse

\* `self.wait_for_page_load()`: the flag it returns is not looked at.
login_wait_for_page_load ==
    /\ UNCHANGED <<varsA, varsB,
                   varsD, varsE, varsF, varsG, varsH, varsIN>>
    /\ fop = "login"
    /\ fpc = "load"
    /\ IF fhealth = "crashed" THEN Swallow ELSE Waited(LoginSteps)

\* The classification of the outcome, lines 90-101.
login_classify ==
    /\ UNCHANGED <<varsA, varsB,
                   varsD, varsE, varsF, varsG, varsH, varsIN>>
    /\ fop = "login"
    /\ fpc = "classify"
    /\ IF fhealth = "crashed"
       THEN Swallow
       ELSE /\ fres' = PyBool(LoginOutcome(site.url, site.err))
            /\ fpc' = "done"
            /\ fx' = [fx EXCEPT !.classified = TRUE]
            /\ UNCHANGED <<fop, fargs, site, fhealth, gem>>

\* register_user(user_data) is entered.
register_user(user_data) ==
    /\ UNCHANGED <<varsA, varsB,
                   varsD, varsE, varsF, varsG, varsH, varsIN>>
    /\ fpc = "idle"
    /\ fpc' = "first_name"
    /\ fop' = "register_user"
    /\ fargs' = [fargs EXCEPT !.user_data = user_data]
    /\ fres' = "none"
    /\ fx' = NoFx
    /\ gem' = NoGem
    /\ UNCHANGED <<site, fhealth>>

\* The optional inputs: `if key in user_data and is_element_present(F):
\* if not send_keys_to_element(F, ...): return False`; the confirmation of
\* the password needs no key.
register_user_optional ==
    /\ UNCHANGED <<varsA, varsB,
                   varsD, varsE, varsF, varsG, varsH, varsIN>>
    /\ fop = "register_user"
    /\ fpc \in {"first_name", "last_name", "confirm_password", "phone"}
    /\ IF fpc # "confirm_password" /\ ~fargs.user_data[fpc]
       THEN Advance(RegisterSteps)
       ELSE IF fhealth = "crashed"
       THEN Swallow
       ELSE \E present \in BOOLEAN, ok \in BOOLEAN :
               IF ~present THEN Advance(RegisterSteps)
               ELSE IF ok THEN Typed(RegisterSteps)
               ELSE ReturnFalse

\* The required inputs: e-mail and password.
register_user_required ==
    /\ UNCHANGED <<varsA, varsB,
                   varsD, varsE, varsF, varsG, varsH, varsIN>>
    /\ fop = "register_user"
    /\ fpc \in {"email", "password"}
    /\ IF fhealth = "crashed"
       THEN Swallow
       ELSE \E ok \in BOOLEAN :
               IF ok THEN Typed(RegisterSteps) ELSE ReturnFalse

\* `if is_element_present(TERMS_CHECKBOX | PRIVACY_CHECKBOX):
\*      if not click_element(...): return False`
register_user_accept ==
    /\ UNCHANGED <<varsA, varsB,
                   varsD, varsE, varsF, varsG, varsH, varsIN>>
    /\ fop = "register_user"
    /\ fpc \in {"terms", "privacy"}
    /\ IF fhealth = "crashed"
       THEN Swallow
       ELSE \E present \in BOOLEAN, ok \in BOOLEAN :
               IF ~present THEN Advance(RegisterSteps)
               ELSE IF ok
               THEN /\ fpc' = StepAfter(RegisterSteps, fpc)
                    /\ fx' = [fx EXCEPT !.clicked = @ \cup {fpc}]
                    /\ UNCHANGED <<fop, fargs, site, fhealth, fres, gem>>
               ELSE ReturnFalse

\* `if user_data.get("subscribe_newsletter", False) and
\*      is_element_present(NEWSLETTER_CHECKBOX): click_element(...)`
register_user_newsletter ==
    /\ UNCHANGED <<varsA, varsB,
                   varsD, varsE, varsF, varsG, varsH, varsIN>>
    /\ fop = "register_user"
    /\ fpc = "newsletter"
    /\ IF ~fargs.user_data["subscribe_newsletter"]
       THEN Advance(RegisterSteps)
       ELSE IF fhealth = "crashed"
       THEN Swallow
       ELSE \E clicked \in BOOLEAN :
               IF clicked
               THEN /\ fpc' = StepAfter(RegisterSteps, fpc)
                    /\ fx' = [fx EXCEPT !.clicked = @ \cup {fpc}]
                    /\ UNCHANGED <<fop, fargs, site, fhealth, fres, gem>>
               ELSE Advance(RegisterSteps)

\* `if not self.click_element(REGISTER_BUTTON)`
register_user_click_button ==
    /\ UNCHANGED <<varsA, varsB,
                   varsD, varsE, varsF, varsG, varsH, varsIN>>
    /\ fop = "register_user"
    /\ fpc = "button"
    /\ IF fhealth = "crashed"
       THEN Swallow
       ELSE \E ok \in BOOLEAN :
               IF ok
               THEN \E r \in Responses : Submitted(RegisterSteps, r)
               ELSE ReturnFalse

\* `self.wait_for_page_load()`
register_user_wait_for_page_load ==
    /\ UNCHANGED <<varsA, varsB,
                   varsD, varsE, varsF, varsG, varsH, varsIN>>
    /\ fop = "register_user"
    /\ fpc = "load"
    /\ IF fhealth = "crashed" THEN Swallow ELSE Waited(RegisterSteps)

\* The classification of the outcome, lines 141-157.
register_user_classify ==
    /\ UNCHANGED <<varsA, varsB,
                   varsD, varsE, varsF, varsG, varsH, varsIN>>
    /\ fop = "register_user"
    /\ fpc = "classify"
    /\ IF fhealth = "crashed"
       THEN Swallow
       ELSE /\ fres' = PyBool(RegisterOutcome(site.succ, site.url, site.err))
            /\ fpc' = "done"
            /\ fx' = [fx EXCEPT !.classified = TRUE]
            /\ UNCHANGED <<fop, fargs, site, fhealth, gem>>

\* reset_password(email) is entered.
reset_password ==
    /\ UNCHANGED <<varsA, varsB,
                   varsD, varsE, varsF, varsG, varsH, varsIN>>
    /\ fpc = "idle"
    /\ fpc' = "email"
    /\ fop' = "reset_password"
    /\ fres' = "none"
    /\ fx' = NoFx
    /\ gem' = NoGem
    /\ UNCHANGED <<fargs, site, fhealth>>

\* `if not self.send_keys_to_element(self.EMAIL_INPUT, email)`
reset_password_enter ==
    /\ UNCHANGED <<varsA, varsB,
                   varsD, varsE, varsF, varsG, varsH, varsIN>>
    /\ fop = "reset_password"
    /\ fpc = "email"
    /\ IF fhealth = "crashed"
       THEN Swallow
       ELSE \E ok \in BOOLEAN :
               IF ok THEN Typed(ResetSteps) ELSE ReturnFalse

\* `if not self.click_element(self.SUBMIT_BUTTON)`
reset_password_click_button ==
    /\ UNCHANGED <<varsA, varsB,
                   varsD, varsE, varsF, varsG, varsH, varsIN>>
    /\ fop = "reset_password"
    /\ fpc = "button"
    /\ IF fhealth = "crashed"
       THEN Swallow
       ELSE \E ok \in BOOLEAN :
               IF ok
               THEN \E r \in Responses : Submitted(ResetSteps, r)
               ELSE ReturnFalse

\* `self.wait_for_page_load()`
reset_password_wait_for_page_load ==
    /\ UNCHANGED <<varsA, varsB,
                   varsD, varsE, varsF, varsG, varsH, varsIN>>
    /\ fop = "reset_password"
    /\ fpc = "load"
    /\ IF fhealth = "crashed" THEN Swallow ELSE Waited(ResetSteps)

\* The classification of the outcome, lines 69-82.
reset_password_classify ==
    /\ UNCHANGED <<varsA, varsB,
                   varsD, varsE, varsF, varsG, varsH, varsIN>>
    /\ fop = "reset_password"
    /\ fpc = "classify"
    /\ IF fhealth = "crashed"
       THEN Swallow
       ELSE /\ fres' = PyBool(ResetOutcome(site.succ, site.err))
            /\ fpc' = "done"
            /\ fx' = [fx EXCEPT !.classified = TRUE]
            /\ UNCHANGED <<fop, fargs, site, fhealth, gem>>

\* get_error_message(), called after the operation has returned:
\*   try: if is_element_visible(ERROR_MESSAGE, 3):
\*            return get_element_text(ERROR_MESSAGE)
\*        return ""
\*   except Exception: return ""
get_error_message ==
    /\ UNCHANGED <<varsA, varsB,
                   varsD, varsE, varsF, varsG, varsH, varsIN>>
    /\ fpc = "done"
    /\ fop \in {"login", "register_user"}
    /\ ~gem.called
    /\ gem' = [called |-> TRUE,
               text |-> IF fhealth = "crashed" THEN ""
                        ELSE IF site.err THEN site.errText ELSE ""]
    /\ UNCHANGED <<fpc, fop, fargs, site, fhealth, fres, fx>>

\* The scenario goes on to its next page-object call.
form_return ==
    /\ UNCHANGED <<varsA, varsB,
                   varsD, varsE, varsF, varsG, varsH, varsIN>>
    /\ fpc = "done"
    /\ fpc' = "idle"
    /\ fop' = "none"
    /\ fargs' = [remember_me |-> FALSE, user_data |-> MinimalUser]
    /\ fres' = "none"
    /\ fx' = NoFx
    /\ gem' = NoGem
    /\ UNCHANGED <<site, fhealth>>

\* The browser session crashes or becomes unreachable.
form_session_crash ==
    /\ UNCHANGED <<varsA, varsB,
                   varsD, varsE, varsF, varsG, varsH, varsIN>>
    /\ fhealth = "ok"
    /\ fhealth' = "crashed"
    /\ UNCHANGED <<fpc, fop, fargs, site, fres, fx, gem>>

NextC ==
    \/ \E p \in {"login", "register"} : load(p)
    \/ \E rm \in BOOLEAN : login(rm)
    \/ login_enter
    \/ login_remember_me
    \/ login_click_button
    \/ login_wait_for_page_load
    \/ login_classify
    \/ \E ud \in UserDatas : register_user(ud)
    \/ register_user_optional
    \/ register_user_required
    \/ register_user_accept
    \/ register_user_newsletter
    \/ register_user_click_button
    \/ register_user_wait_for_page_load
    \/ register_user_classify
    \/ reset_password
    \/ reset_password_enter
    \/ reset_password_click_button
    \/ reset_password_wait_for_page_load
    \/ reset_password_classify
    \/ get_error_message
    \/ form_return
    \/ form_session_crash

(***************************************************************************)
(* Part D: ProductPage.add_to_cart, the CartPage queries and               *)
(* CartPage.remove_item, and the cart scenarios built on them.  The page   *)
(* is still while one call runs (Part B covers pages that change under a   *)
(* wait), so a wait succeeds exactly when its condition holds on the page. *)
(***************************************************************************)

\* What one element matched by CART_ITEMS contains: "full" has the name,
\* price, quantity and image sub-elements, each with a value, "partial"
\* lacks at least one of the four sub-elements.
ItemKinds == {"full", "partial"}

ItemLists == UNION {[1..n -> ItemKinds] : n \in 0..MaxItems}

\* The element matched by EMPTY_CART_MESSAGE: not displayed (not in the
\* page, or hidden), displayed without text, displayed with text.
EmptyMsgStates == {"absent", "blank", "text"}

\* Pages of the shop as the cart and product operations see them.
\*   buttons   elements matched by REMOVE_ITEM_BUTTONS: one per cart item,
\*             or none
\*   reacts    what the site does with a click on one of them
\*   addButton the element matched by ADD_TO_CART_BUTTON
\*   success   the site shows SUCCESS_MESSAGE after a click on it
CartPages ==
    {pg \in [items : ItemLists, emptyMsg : EmptyMsgStates,
             buttons : 0..MaxItems, reacts : {"removes", "ignores"},
             addButton : {"blocked"}, success : {FALSE}] :
        pg.buttons \in {0, Len(pg.items)}}

ProductPages ==
    [items : {<<>>}, emptyMsg : {"absent"}, buttons : {0},
     reacts : {"ignores"}, addButton : {"clickable", "blocked"},
     success : BOOLEAN]

ShopPages == CartPages \cup ProductPages

BlankShopPage ==
    [items |-> <<>>, emptyMsg |-> "absent", buttons |-> 0,
     reacts |-> "ignores", addButton |-> "blocked", success |-> FALSE]

\* One call of the scenario: the operation, its integer argument, what it
\* returned ("running" until it ends, "raised" for an exception), the number
\* it returned or counted, and whether it clicked.
Entry(op, arg, ret, n, did) ==
    [op |-> op, arg |-> arg, ret |-> ret, n |-> n, did |-> did]

\* base_page.is_element_visible(EMPTY_CART_MESSAGE) on a still page.
EmptyMsgVisible(pg) == pg.emptyMsg \in {"blank", "text"}

IsCartEmpty(pg) == EmptyMsgVisible(pg) \/ Len(pg.items) = 0

\* A reading in which every displayed element yields a text.
GetEmptyCartMessage_of_displayed(pg) ==
    IF pg.emptyMsg \in {"blank", "text"} THEN "text" ELSE "empty"

\* get_element_text: the text of the present element, "" on timeout; the
\* text the driver reports for an element that is not displayed is "".
GetEmptyCartMessage(pg) == IF pg.emptyMsg = "text" THEN "text" ELSE "empty"

IsRecorded(k) == k # "partial"

\* item.find_element raises NoSuchElementException for a missing
\* sub-element, the inner handler skips the item.
GetCartItems(pg) == SelectSeq(pg.items, IsRecorded)

GetCartItemCount(pg) == Len(pg.items)

\* An add_to_cart that needs the success message.
AddToCartOutcome_needs_message(clicked, msgVisible) == clicked /\ msgVisible

AddToCartOutcome(clicked, msgVisible) ==
    IF clicked
    THEN IF msgVisible THEN TRUE ELSE TRUE
    ELSE FALSE

\* Python's remove_buttons[i] for a list of n buttons: the 1-based position
\* of the button, 0 when the index raises IndexError.
PyIndex(i, n) ==
    IF i >= 0 /\ i < n THEN i + 1
    ELSE IF i < 0 /\ i >= 0 - n THEN n + i + 1
    ELSE 0

RemoveAt(s, j) == [k \in 1..(Len(s) - 1) |-> IF k < j THEN s[k] ELSE s[k + 1]]

\* The page after the site served a click on remove button b.
AfterRemoveClick(pg, b) ==
    IF pg.reacts = "removes" /\ Len(pg.items) > 0
    THEN [pg EXCEPT !.items = RemoveAt(pg.items,
                                 IF b <= Len(pg.items) THEN b
                                 ELSE Len(pg.items)),
                    !.buttons = pg.buttons - 1]
    ELSE pg

InitD ==
    /\ cpage = BlankShopPage
    /\ chealth = "ok"
    /\ clog = <<>>

Running == Len(clog) > 0 /\ clog[Len(clog)].ret = "running"

\* The scenario may make one more call.
CanCall == ~Running /\ Len(clog) < MaxCalls

Record(e) == clog' = Append(clog, e)

Fresh == cpage = BlankShopPage /\ chealth = "ok" /\ clog = <<>>

\* The scenario opens a page of the shop in its new session.
cart_load ==
    /\ UNCHANGED <<varsA, varsB, varsC, varsE, varsF, varsG, varsH, varsIN>>
    /\ Fresh
    /\ \E p \in ShopPages : cpage' = p
    /\ UNCHANGED <<chealth, clog>>

\* The scenario ends; the next one starts in a session of its own.
scenario_end ==
    /\ UNCHANGED <<varsA, varsB, varsC, varsE, varsF, varsG, varsH, varsIN>>
    /\ ~Running
    /\ cpage' = BlankShopPage
    /\ chealth' = "ok"
    /\ clog' = <<>>

\* ProductPage.add_to_cart up to the return of click_element.
add_to_cart ==
    /\ UNCHANGED <<varsA, varsB, varsC, varsE, varsF, varsG, varsH, varsIN>>
    /\ CanCall
    /\ IF chealth = "crashed"
       THEN Record(Entry("add_to_cart", 0, "raised", 0, "none"))
       ELSE IF cpage.addButton = "clickable"
       THEN Record(Entry("add_to_cart", 0, "running", 0, "clicked"))
       ELSE Record(Entry("add_to_cart", 0,
                         PyBool(AddToCartOutcome(FALSE, FALSE)), 0, "none"))
    /\ UNCHANGED <<cpage, chealth>>

\* The rest of add_to_cart: the wait for the success message and the return.
add_to_cart_message ==
    /\ UNCHANGED <<varsA, varsB, varsC, varsE, varsF, varsG, varsH, varsIN>>
    /\ Running
    /\ clog' = [clog EXCEPT ![Len(clog)].ret =
                   IF chealth = "crashed" THEN "raised"
                   ELSE PyBool(AddToCartOutcome(TRUE, cpage.success))]
    /\ UNCHANGED <<cpage, chealth>>

is_cart_empty ==
    /\ UNCHANGED <<varsA, varsB, varsC, varsE, varsF, varsG, varsH, varsIN>>
    /\ CanCall
    /\ Record(Entry("is_cart_empty", 0,
                    IF chealth = "crashed" THEN "raised"
                    ELSE PyBool(IsCartEmpty(cpage)), 0, "none"))
    /\ UNCHANGED <<cpage, chealth>>

get_empty_cart_message ==
    /\ UNCHANGED <<varsA, varsB, varsC, varsE, varsF, varsG, varsH, varsIN>>
    /\ CanCall
    /\ Record(Entry("get_empty_cart_message", 0,
                    IF chealth = "crashed" THEN "raised"
                    ELSE GetEmptyCartMessage(cpage), 0, "none"))
    /\ UNCHANGED <<cpage, chealth>>

\* The outer handler of get_cart_items turns a driver error into [].
get_cart_items ==
    /\ UNCHANGED <<varsA, varsB, varsC, varsE, varsF, varsG, varsH, varsIN>>
    /\ CanCall
    /\ Record(Entry("get_cart_items", 0, "list",
                    IF chealth = "crashed" THEN 0
                    ELSE Len(GetCartItems(cpage)), "none"))
    /\ UNCHANGED <<cpage, chealth>>

get_cart_item_count ==
    /\ UNCHANGED <<varsA, varsB, varsC, varsE, varsF, varsG, varsH, varsIN>>
    /\ CanCall
    /\ Record(Entry("get_cart_item_count", 0, "int",
                    IF chealth = "crashed" THEN 0
                    ELSE GetCartItemCount(cpage), "none"))
    /\ UNCHANGED <<cpage, chealth>>

\* CartPage.remove_item: every exception (driver error, IndexError, a click
\* the browser refuses) ends in False; a click that went through ends in
\* True once the document is complete.
remove_item(item_index) ==
    /\ UNCHANGED <<varsA, varsB, varsC, varsE, varsF, varsG, varsH, varsIN>>
    /\ CanCall
    /\ LET b == PyIndex(item_index, cpage.buttons)
       IN  IF chealth = "ok" /\ item_index < cpage.buttons /\ b > 0
           THEN \/ /\ cpage' = AfterRemoveClick(cpage, b)
                   /\ Record(Entry("remove_item", item_index, "True", 0,
                                   "clicked"))
                \/ /\ Record(Entry("remove_item", item_index, "False", 0,
                                   "none"))
                   /\ UNCHANGED cpage
           ELSE /\ Record(Entry("remove_item", item_index, "False", 0, "none"))
                /\ UNCHANGED cpage
    /\ UNCHANGED chealth

\* tests/test_cart.py test_cart_item_display on the cart page the site
\* serves: the outcome pytest reports and the number of assertions evaluated.
TestCartItemDisplay(pg) ==
    IF ~IsCartEmpty(pg)
    THEN IF Len(GetCartItems(pg)) > 0
         THEN [outcome |-> "passed", checks |-> 3]
         ELSE [outcome |-> "passed", checks |-> 0]
    ELSE [outcome |-> "passed", checks |-> 0]

\* tests/test_cart_functionality.py test_cart_item_details_display: CartPage
\* has no open_cart_page, the first statement after the construction raises
\* AttributeError, before is_cart_empty() and pytest.skip are reached.
TestCartItemDetailsDisplay(pg) == [outcome |-> "failed", checks |-> 0]

test_cart_item_display ==
    /\ UNCHANGED <<varsA, varsB, varsC, varsE, varsF, varsG, varsH, varsIN>>
    /\ Fresh
    /\ \E p \in CartPages :
          /\ cpage' = p
          /\ clog' = <<Entry("test_cart_item_display", 0,
                             TestCartItemDisplay(p).outcome,
                             TestCartItemDisplay(p).checks, "none")>>
    /\ UNCHANGED chealth

test_cart_item_details_display ==
    /\ UNCHANGED <<varsA, varsB, varsC, varsE, varsF, varsG, varsH, varsIN>>
    /\ Fresh
    /\ \E p \in CartPages :
          /\ cpage' = p
          /\ clog' = <<Entry("test_cart_item_details_display", 0,
                             TestCartItemDetailsDisplay(p).outcome,
                             TestCartItemDetailsDisplay(p).checks, "none")>>
    /\ UNCHANGED chealth

\* The browser session crashes or becomes unreachable.
cart_session_crash ==
    /\ UNCHANGED <<varsA, varsB, varsC, varsE, varsF, varsG, varsH, varsIN>>
    /\ chealth = "ok"
    /\ chealth' = "crashed"
    /\ UNCHANGED <<cpage, clog>>

NextD ==
    \/ cart_load
    \/ add_to_cart
    \/ add_to_cart_message
    \/ is_cart_empty
    \/ get_empty_cart_message
    \/ get_cart_items
    \/ get_cart_item_count
    \/ \E i \in (0 - 1)..(MaxItems - 1) : remove_item(i)
    \/ test_cart_item_display
    \/ test_cart_item_details_display
    \/ cart_session_crash
    \/ scenario_end

(***************************************************************************)
(* Part E: the registration scenarios that build their e-mail address at   *)
(* run time, run by the workers of `pytest -n N`.                          *)
(***************************************************************************)

Workers == 1..NumWorkers

\* The scenarios of tests/test_registration.py that generate an address.
GeneratingTests ==
    {"test_valid_user_registration", "test_weak_password_registration",
     "test_password_confirmation_mismatch",
     "test_terms_and_conditions_requirement"}

IdleWorker == [pc |-> "idle", test |-> "none", email |-> <<>>]

\* int(time.time()): the whole seconds of the clock.
IntTime(c) == c \div TicksPerSecond

\* f"testuser{timestamp}@example.com"
Email(timestamp) == <<"testuser", timestamp, "@example.com">>

InitE ==
    /\ clock = 0
    /\ todo = GeneratingTests
    /\ wstate = [w \in Workers |-> IdleWorker]
    /\ sent = <<>>

clock_tick ==
    /\ UNCHANGED <<varsA, varsB, varsC, varsD, varsF, varsG, varsH, varsIN>>
    /\ clock < MaxClock
    /\ clock' = clock + 1
    /\ UNCHANGED <<todo, wstate, sent>>

\* A free worker is handed a scenario; the scenario loads the registration
\* page in its own browser session.
take_test(w, t) ==
    /\ UNCHANGED <<varsA, varsB, varsC, varsD, varsF, varsG, varsH, varsIN>>
    /\ wstate[w].pc = "idle"
    /\ t \in todo
    /\ todo' = todo \ {t}
    /\ wstate' = [wstate EXCEPT ![w] = [pc |-> "loaded", test |-> t,
                                        email |-> <<>>]]
    /\ UNCHANGED <<clock, sent>>

\* timestamp = str(int(time.time())) and the user data built from it.
generate_email(w) ==
    /\ UNCHANGED <<varsA, varsB, varsC, varsD, varsF, varsG, varsH, varsIN>>
    /\ wstate[w].pc = "loaded"
    /\ wstate' = [wstate EXCEPT ![w].pc = "generated",
                                ![w].email = Email(IntTime(clock))]
    /\ UNCHANGED <<clock, todo, sent>>

\* registration_page.register_user(user_data) submits the address; the
\* scenario ends and the worker is free again.
submit_registration(w) ==
    /\ UNCHANGED <<varsA, varsB, varsC, varsD, varsF, varsG, varsH, varsIN>>
    /\ wstate[w].pc = "generated"
    /\ sent' = Append(sent, [test |-> wstate[w].test, worker |-> w,
                             email |-> wstate[w].email])
    /\ wstate' = [wstate EXCEPT ![w] = IdleWorker]
    /\ UNCHANGED <<clock, todo>>

NextE ==
    \/ clock_tick
    \/ \E w \in Workers, t \in GeneratingTests : take_test(w, t)
    \/ \E w \in Workers : generate_email(w)
    \/ \E w \in Workers : submit_registration(w)

(***************************************************************************)
(* Part F: lookups by the locator constants of pages/login_page.py.  Each  *)
(* constant is one CSS selector list; "css" marks an alternative that is   *)
(* a CSS selector, "jquery" one written with the jQuery-only               *)
(* pseudo-class :contains(), which no browser parses as CSS.               *)
(***************************************************************************)

LoginLocators ==
    [EMAIL_INPUT |-> <<"css", "css", "css", "css">>,
     PASSWORD_INPUT |-> <<"css", "css", "css", "css">>,
     LOGIN_BUTTON |-> <<"css", "css", "css">>,
     REMEMBER_ME_CHECKBOX |-> <<"css", "css">>,
     FORGOT_PASSWORD_LINK |-> <<"css", "css", "jquery">>,
     CREATE_ACCOUNT_LINK |-> <<"css", "css", "jquery", "jquery">>,
     ERROR_MESSAGE |-> <<"css", "css", "css", "css">>,
     SUCCESS_MESSAGE |-> <<"css", "css", "css">>,
     LOGIN_FORM |-> <<"css", "css", "css">>,
     PAGE_TITLE |-> <<"css", "css", "css">>]

Alternatives(l) == LoginLocators[l]

\* driver.find_element(By.CSS_SELECTOR, list): the browser parses the whole
\* list; one alternative that is not CSS makes the list an invalid selector.
DriverFind(l, matching) ==
    IF \E i \in DOMAIN Alternatives(l) : Alternatives(l)[i] = "jquery"
    THEN "InvalidSelectorException"
    ELSE IF \E i \in matching : Alternatives(l)[i] = "css"
         THEN "element"
         ELSE "NoSuchElementException"

\* How InvalidSelectorException reaches the caller: selenium 4 derives it
\* from WebDriverException, selenium 3 from NoSuchElementException; the
\* repository pins neither.
SeleniumBuilds == {"selenium3", "selenium4"}

\* BasePage.find_element on a still page: the wait ignores
\* NoSuchElementException and ends in TimeoutException, which is re-raised.
FindElementOutcome(found, build) ==
    CASE found = "element" -> "element"
      [] found = "NoSuchElementException" -> "TimeoutException"
      [] found = "InvalidSelectorException" ->
            IF build = "selenium3" THEN "TimeoutException"
            ELSE "InvalidSelectorException"

\* BasePage.is_element_present catches NoSuchElementException only.
IsElementPresentOutcome(found, build) ==
    CASE found = "element" -> "True"
      [] found = "NoSuchElementException" -> "False"
      [] found = "InvalidSelectorException" ->
            IF build = "selenium3" THEN "False"
            ELSE "InvalidSelectorException"

InitF ==
    /\ lloc = "EMAIL_INPUT"
    /\ lmatch = {}
    /\ lop = "none"
    /\ lres = "none"

\* The scenario turns to a locator on the page now shown.
locator_page(l, matching) ==
    /\ UNCHANGED <<varsA, varsB, varsC, varsD, varsE, varsG, varsH, varsIN>>
    /\ matching \subseteq DOMAIN Alternatives(l)
    /\ lloc' = l
    /\ lmatch' = matching
    /\ lop' = "none"
    /\ lres' = "none"

locator_find_element ==
    /\ UNCHANGED <<varsA, varsB, varsC, varsD, varsE, varsG, varsH, varsIN>>
    /\ lop = "none"
    /\ lop' = "find_element"
    /\ \E build \in SeleniumBuilds :
          lres' = FindElementOutcome(DriverFind(lloc, lmatch), build)
    /\ UNCHANGED <<lloc, lmatch>>

locator_is_element_present ==
    /\ UNCHANGED <<varsA, varsB, varsC, varsD, varsE, varsG, varsH, varsIN>>
    /\ lop = "none"
    /\ lop' = "is_element_present"
    /\ \E build \in SeleniumBuilds :
          lres' = IsElementPresentOutcome(DriverFind(lloc, lmatch), build)
    /\ UNCHANGED <<lloc, lmatch>>

NextF ==
    \/ \E l \in DOMAIN LoginLocators, matching \in SUBSET (1..MaxAlternatives) :
           locator_page(l, matching)
    \/ locator_find_element
    \/ locator_is_element_present

(***************************************************************************)
(* Part G: HomePage.search_for_product and SearchResultsPage.is_loaded.    *)
(***************************************************************************)

\* URLs the shop may show: the home page, the search results under two
\* spellings, a collection.
LandingUrls ==
    {<<"home">>, <<"search">>, <<"Search">>, <<"collections", "all">>}

\* SEARCH_BOX: clickable, in the page but not interactable, or not in it.
BoxStates == {"clickable", "present", "absent"}

\* SEARCH_BUTTON: clickable, not clickable, or a selector list the browser
\* rejects (its first alternative uses :has()).
ButtonStates == {"clickable", "blocked", "invalid"}

\* What the site shows after a submitted search.
Landings == [url : LandingUrls, grid : BOOLEAN, noResults : BOOLEAN]

SearchTerms == {"dress", "shoes"}

HomePageOf(box, button) ==
    [box |-> box, button |-> button, url |-> <<"home">>, grid |-> FALSE,
     noResults |-> FALSE]

Landed(pg, l) ==
    [pg EXCEPT !.url = l.url, !.grid = l.grid, !.noResults = l.noResults]

NoSearchFx ==
    [term |-> "none", typed |-> FALSE, clicked |-> FALSE, entered |-> FALSE]

\* An is_loaded that does not look at the URL.
IsLoaded_elements_only(pg) == pg.grid \/ pg.noResults

\* SearchResultsPage.is_loaded on a live session.
IsLoaded(pg) == UrlContains(pg.url, "search") \/ pg.grid \/ pg.noResults

InitG ==
    /\ spc = "idle"
    /\ spage = HomePageOf("absent", "blocked")
    /\ shealth = "ok"
    /\ sfx = NoSearchFx
    /\ sres = "none"
    /\ sloaded = "none"

\* The operation ends with the value v.
SearchReturns(v) == spc' = "done" /\ sres' = v

\* home_page.load() of a scenario, in its own session.
search_open(box, button) ==
    /\ UNCHANGED <<varsA, varsB, varsC, varsD, varsE, varsF, varsH, varsIN>>
    /\ spc = "idle"
    /\ spage' = HomePageOf(box, button)
    /\ shealth' = "ok"
    /\ UNCHANGED <<spc, sfx, sres, sloaded>>

\* The page changes under the running operation.
search_dom_change(box, button) ==
    /\ UNCHANGED <<varsA, varsB, varsC, varsD, varsE, varsF, varsH, varsIN>>
    /\ spc \in {"submit", "fallback"}
    /\ spage' = [spage EXCEPT !.box = box, !.button = button]
    /\ UNCHANGED <<spc, shealth, sfx, sres, sloaded>>

search_for_product(search_term) ==
    /\ UNCHANGED <<varsA, varsB, varsC, varsD, varsE, varsF, varsH, varsIN>>
    /\ spc = "idle"
    /\ spc' = "type"
    /\ sfx' = [NoSearchFx EXCEPT !.term = search_term]
    /\ UNCHANGED <<spage, shealth, sres, sloaded>>

\* send_keys_to_element(SEARCH_BOX, search_term): False on timeout; a driver
\* error reaches the handler of search_for_product.
search_type ==
    /\ UNCHANGED <<varsA, varsB, varsC, varsD, varsE, varsF, varsH, varsIN>>
    /\ spc = "type"
    /\ IF shealth = "ok" /\ spage.box = "clickable"
       THEN /\ sfx' = [sfx EXCEPT !.typed = TRUE]
            /\ spc' = "submit"
            /\ UNCHANGED sres
       ELSE /\ SearchReturns("False")
            /\ UNCHANGED sfx
    /\ UNCHANGED <<spage, shealth, sloaded>>

\* click_element(SEARCH_BUTTON): the click submits the search; False on
\* timeout leads to the fallback; any exception ends in False.
search_click ==
    /\ UNCHANGED <<varsA, varsB, varsC, varsD, varsE, varsF, varsH, varsIN>>
    /\ spc = "submit"
    /\ IF shealth = "ok" /\ spage.button = "clickable"
       THEN /\ sfx' = [sfx EXCEPT !.clicked = TRUE]
            /\ \E l \in Landings : spage' = Landed(spage, l)
            /\ spc' = "wait"
            /\ UNCHANGED sres
       ELSE IF shealth = "ok" /\ spage.button = "blocked"
       THEN /\ spc' = "fallback"
            /\ UNCHANGED <<sfx, spage, sres>>
       ELSE /\ SearchReturns("False")
            /\ UNCHANGED <<sfx, spage>>
    /\ UNCHANGED <<shealth, sloaded>>

\* find_element(SEARCH_BOX).send_keys(Keys.RETURN)
search_enter ==
    /\ UNCHANGED <<varsA, varsB, varsC, varsD, varsE, varsF, varsH, varsIN>>
    /\ spc = "fallback"
    /\ IF shealth = "ok" /\ spage.box = "clickable"
       THEN /\ sfx' = [sfx EXCEPT !.entered = TRUE]
            /\ \E l \in Landings : spage' = Landed(spage, l)
            /\ spc' = "wait"
            /\ UNCHANGED sres
       ELSE /\ SearchReturns("False")
            /\ UNCHANGED <<sfx, spage>>
    /\ UNCHANGED <<shealth, sloaded>>

\* wait_for_page_load(): its own result is dropped; a driver error ends the
\* operation in False.
search_wait_for_page_load ==
    /\ UNCHANGED <<varsA, varsB, varsC, varsD, varsE, varsF, varsH, varsIN>>
    /\ spc = "wait"
    /\ SearchReturns(IF shealth = "ok" THEN "True" ELSE "False")
    /\ UNCHANGED <<spage, shealth, sfx, sloaded>>

search_is_loaded ==
    /\ UNCHANGED <<varsA, varsB, varsC, varsD, varsE, varsF, varsH, varsIN>>
    /\ spc = "done"
    /\ sloaded = "none"
    /\ sloaded' = IF shealth = "crashed" THEN "raised"
                  ELSE PyBool(IsLoaded(spage))
    /\ UNCHANGED <<spc, spage, shealth, sfx, sres>>

\* The scenario ends.
search_return ==
    /\ UNCHANGED <<varsA, varsB, varsC, varsD, varsE, varsF, varsH, varsIN>>
    /\ spc = "done"
    /\ spc' = "idle"
    /\ sfx' = NoSearchFx
    /\ sres' = "none"
    /\ sloaded' = "none"
    /\ UNCHANGED <<spage, shealth>>

\* The browser session crashes or becomes unreachable.
search_session_crash ==
    /\ UNCHANGED <<varsA, varsB, varsC, varsD, varsE, varsF, varsH, varsIN>>
    /\ shealth = "ok"
    /\ shealth' = "crashed"
    /\ UNCHANGED <<spc, spage, sfx, sres, sloaded>>

NextG ==
    \/ \E b \in BoxStates, s \in ButtonStates : search_open(b, s)
    \/ \E b \in BoxStates, s \in ButtonStates : search_dom_change(b, s)
    \/ \E t \in SearchTerms : search_for_product(t)
    \/ search_type
    \/ search_click
    \/ search_enter
    \/ search_wait_for_page_load
    \/ search_is_loaded
    \/ search_return
    \/ search_session_crash

(***************************************************************************)
(* Part H: the command-line runner run_tests.py.                           *)
(***************************************************************************)

\* Command lines: none at all, -h, one that argparse rejects, or flags.
\*   select    the test-selection flag, "" when absent
\*   parallel  N of --parallel N, 0 when absent
ArgLines ==
    [kind : {"none", "help", "invalid"}, select : {""}, parallel : {0}]
    \cup [kind : {"flags"}, select : {"", "smoke", "cart"},
          parallel : {0, NumWorkers}]

\* tests/ and pages/ exist, selenium and pytest import, reports/ exists,
\* the working directory can be written.
Environments ==
    [tests : BOOLEAN, pages : BOOLEAN, deps : BOOLEAN, reports : BOOLEAN,
     writable : BOOLEAN]

\* subprocess.run(command, shell=True): the return code of the shell, a
\* KeyboardInterrupt while it runs, or an exception when it cannot start.
PytestRuns ==
    [kind : {"returned"}, rc : {0, 1, 2, 5, 127}]
    \cup [kind : {"interrupted", "not_started"}, rc : {0}]

NotRun == [kind |-> "none", rc |-> 0]

\* A runner without the help shortcut.
NoArguments_never(args) == FALSE

\* len(sys.argv) == 1
NoArguments(args) == args.kind = "none"

\* get_test_command: the parts of the pytest command line; --browser and
\* --tb carry their defaults.
GetTestCommand(args) ==
    <<"pytest">>
    \o (IF args.select = "" THEN <<>> ELSE <<"-m", args.select>>)
    \o <<"--browser", "chrome">>
    \o (IF args.parallel # 0 THEN <<"-n", ToString(args.parallel)>>
        ELSE <<>>)
    \o <<"--tb=short">>

\* A runner for which every run that returned is a success.
RunSucceeded_any_return(run) == run.kind = "returned"

\* run_pytest_command: result.returncode == 0, False in both handlers.
RunSucceeded(run) == run.kind = "returned" /\ run.rc = 0

InitH ==
    /\ rpc = "off"
    /\ rargs = [kind |-> "none", select |-> "", parallel |-> 0]
    /\ renv = [tests |-> TRUE, pages |-> TRUE, deps |-> TRUE,
               reports |-> FALSE, writable |-> TRUE]
    /\ rrun = NotRun
    /\ rcmd = <<>>
    /\ rtrace = <<>>
    /\ rexit = 0 - 1

Did(ev) == rtrace' = Append(rtrace, ev)

Exit(status) == rpc' = "exited" /\ rexit' = status

\* The runner is started with a command line in an environment.
runner_start(args, env) ==
    /\ UNCHANGED <<varsA, varsB, varsC, varsD, varsE, varsF, varsG, varsIN>>
    /\ rpc \in {"off", "exited"}
    /\ rpc' = "parse"
    /\ rargs' = args
    /\ renv' = env
    /\ rrun' = NotRun
    /\ rcmd' = <<>>
    /\ rtrace' = <<>>
    /\ rexit' = 0 - 1

\* parser.parse_args(): -h prints the help and exits 0, a rejected command
\* line exits 2.
runner_parse_args ==
    /\ UNCHANGED <<varsA, varsB, varsC, varsD, varsE, varsF, varsG, varsIN>>
    /\ rpc = "parse"
    /\ CASE rargs.kind = "help" -> Did("help") /\ Exit(0)
         [] rargs.kind = "invalid" -> Did("usage") /\ Exit(2)
         [] OTHER -> rpc' = "argv" /\ UNCHANGED <<rtrace, rexit>>
    /\ UNCHANGED <<rargs, renv, rrun, rcmd>>

\* The check of len(sys.argv): help and return from main().
runner_no_arguments ==
    /\ UNCHANGED <<varsA, varsB, varsC, varsD, varsE, varsF, varsG, varsIN>>
    /\ rpc = "argv"
    /\ IF NoArguments(rargs)
       THEN Did("help") /\ Exit(0)
       ELSE rpc' = "validate" /\ UNCHANGED <<rtrace, rexit>>
    /\ UNCHANGED <<rargs, renv, rrun, rcmd>>

\* validate_environment() and the sys.exit(1) of main() when it is False;
\* an os.makedirs that fails ends the process with a traceback, status 1.
runner_validate_environment ==
    /\ UNCHANGED <<varsA, varsB, varsC, varsD, varsE, varsF, varsG, varsIN>>
    /\ rpc = "validate"
    /\ IF ~renv.tests \/ ~renv.pages \/ ~renv.deps
       THEN /\ Did("validate_failed")
            /\ Exit(1)
            /\ UNCHANGED renv
       ELSE IF renv.reports
       THEN /\ Did("validate_ok")
            /\ rpc' = "launch"
            /\ UNCHANGED <<renv, rexit>>
       ELSE IF renv.writable
       THEN /\ rtrace' = rtrace \o <<"makedirs", "validate_ok">>
            /\ renv' = [renv EXCEPT !.reports = TRUE]
            /\ rpc' = "launch"
            /\ UNCHANGED rexit
       ELSE /\ Did("validate_failed")
            /\ Exit(1)
            /\ UNCHANGED renv
    /\ UNCHANGED <<rargs, rrun, rcmd>>

\* get_test_command(args) and run_pytest_command(command, description).
runner_run_pytest_command(run) ==
    /\ UNCHANGED <<varsA, varsB, varsC, varsD, varsE, varsF, varsG, varsIN>>
    /\ rpc = "launch"
    /\ rrun' = run
    /\ Did(IF run.kind = "not_started" THEN "launch_failed" ELSE "pytest")
    /\ rcmd' = GetTestCommand(rargs)
    /\ rpc' = "report"
    /\ UNCHANGED <<rargs, renv, rexit>>

\* The end of main(): return on success, sys.exit(1) otherwise.
runner_report ==
    /\ UNCHANGED <<varsA, varsB, varsC, varsD, varsE, varsF, varsG, varsIN>>
    /\ rpc = "report"
    /\ Exit(IF RunSucceeded(rrun) THEN 0 ELSE 1)
    /\ UNCHANGED <<rargs, renv, rrun, rcmd, rtrace>>

NextH ==
    \/ \E args \in ArgLines, env \in Environments : runner_start(args, env)
    \/ runner_parse_args
    \/ runner_no_arguments
    \/ runner_validate_environment
    \/ \E run \in PytestRuns : runner_run_pytest_command(run)
    \/ runner_report

(***************************************************************************)
(* Part I: Config.get_browser_options (config/config.py).                  *)
(***************************************************************************)
\* Browser names a caller passes; only the first two are keys of `options`.
BrowserNames == {"chrome", "firefox", "edge", "Chrome", ""}

\* The dict literal `options = {...}`, built anew by every call.
OptionsDict ==
    [chrome  |-> <<"--no-sandbox", "--disable-dev-shm-usage", "--disable-gpu",
                   "--window-size=1920,1080">>,
     firefox |-> <<"--width=1920", "--height=1080">>]

WithHeadless_on_every_call(options, browser_name, headless) ==
    IF browser_name \in {"chrome", "firefox"}
    THEN [options EXCEPT ![browser_name] = Append(@, "--headless")]
    ELSE options

\* `if Config.HEADLESS: if browser_name == "chrome": ...append("--headless")
\*                      elif browser_name == "firefox": ...append("--headless")`
WithHeadless(options, browser_name, headless) ==
    IF headless
    THEN IF browser_name = "chrome"
         THEN [options EXCEPT !.chrome = Append(@, "--headless")]
         ELSE IF browser_name = "firefox"
         THEN [options EXCEPT !.firefox = Append(@, "--headless")]
         ELSE options
    ELSE options

\* `return options.get(browser_name, {"arguments": []})`, as its arguments.
GetBrowserOptions(browser_name, headless) ==
    LET options == WithHeadless(OptionsDict, browser_name, headless)
    IN  IF browser_name \in DOMAIN options THEN options[browser_name] ELSE <<>>

\* `HEADLESS = False`
InitI ==
    /\ oheadless = FALSE
    /\ olog = <<>>

\* The setting HEADLESS of the class is switched on before the run.
set_headless ==
    /\ UNCHANGED OutsideI
    /\ olog = <<>>
    /\ ~oheadless
    /\ oheadless' = TRUE
    /\ UNCHANGED olog

\* One call Config.get_browser_options(browser_name).
get_browser_options(browser_name) ==
    /\ UNCHANGED OutsideI
    /\ Len(olog) < MaxCalls
    /\ olog' = Append(olog, [browser_name |-> browser_name,
                             arguments |-> GetBrowserOptions(browser_name,
                                                             oheadless)])
    /\ UNCHANGED oheadless

NextI ==
    \/ set_headless
    \/ \E browser_name \in BrowserNames : get_browser_options(browser_name)

(***************************************************************************)
(* Part J: take_screenshot of pages/base_page.py and utils/helpers.py, and *)
(* the directories setup.py creates.                                       *)
(***************************************************************************)
Filenames == {"login.png", "cart.png"}

\* Both classes have the operation, with the same body.
ScreenshotOwners == {"BasePage", "TestHelpers"}

\* `screenshot_path = f"screenshots/{filename}"`
ScreenshotPath(filename) == <<"screenshots", "/", filename>>

\* driver.save_screenshot(path) on a live session: it opens the file for
\* writing and gives False when that fails, as it does in a directory that
\* does not exist; a write into an existing directory can fail as well.
SaveScreenshot(dir) ==
    IF dir
    THEN {[dir |-> TRUE, written |-> w] : w \in BOOLEAN}
    ELSE {[dir |-> FALSE, written |-> FALSE]}

InitJ ==
    /\ jdir = FALSE
    /\ jhealth = "ok"
    /\ jlog = <<>>

\* setup.py, create_directories(): `if not os.path.exists(directory):
\* os.makedirs(directory)`.
create_directories ==
    /\ UNCHANGED OutsideJ
    /\ jdir' = TRUE
    /\ UNCHANGED <<jhealth, jlog>>

\* take_screenshot(filename): `try: self.driver.save_screenshot(path);
\* return path; except Exception: return ""`.
take_screenshot(owner, filename) ==
    /\ UNCHANGED OutsideJ
    /\ Len(jlog) < MaxCalls
    /\ IF jhealth = "crashed"
       THEN /\ jlog' = Append(jlog, [owner |-> owner, filename |-> filename,
                                     health |-> jhealth, dir |-> jdir,
                                     written |-> FALSE, ret |-> <<>>])
            /\ jdir' = jdir
       ELSE \E s \in SaveScreenshot(jdir) :
               /\ jlog' = Append(jlog, [owner |-> owner, filename |-> filename,
                                        health |-> jhealth, dir |-> s.dir,
                                        written |-> s.written,
                                        ret |-> ScreenshotPath(filename)])
               /\ jdir' = s.dir
    /\ UNCHANGED jhealth

\* The browser session dies.
screenshot_session_crash ==
    /\ UNCHANGED OutsideJ
    /\ jhealth = "ok"
    /\ jhealth' = "crashed"
    /\ UNCHANGED <<jdir, jlog>>

NextJ ==
    \/ create_directories
    \/ \E owner \in ScreenshotOwners, filename \in Filenames :
          take_screenshot(owner, filename)
    \/ screenshot_session_crash

(***************************************************************************)
(* Part K: BasePage.wait_for_page_load (pages/base_page.py).               *)
(***************************************************************************)
\* `def wait_for_page_load(self, timeout: int = 30)`
PAGE_LOAD_DEFAULT == 30

\* The timeouts a caller passes, and the default.
PageLoadTimeouts == (1..MaxTimeout) \cup {PAGE_LOAD_DEFAULT}

\* `self.wait.until(...)`: the wait is the one __init__ built with
\* Config.EXPLICIT_WAIT; the argument `timeout` only appears in the warning.
PageLoadWait(timeout) == EXPLICIT_WAIT

InitK ==
    /\ kpc = "idle"
    /\ ktimeout = 0
    /\ kelapsed = 0
    /\ kready = FALSE
    /\ khealth = "ok"
    /\ kres = "none"

\* wait_for_page_load(timeout) is entered on a page that is loading or loaded.
wait_for_page_load(timeout) ==
    /\ UNCHANGED OutsideK
    /\ kpc = "idle"
    /\ kpc' = "waiting"
    /\ ktimeout' = timeout
    /\ kelapsed' = 0
    /\ kres' = "none"
    /\ kready' \in BOOLEAN
    /\ UNCHANGED khealth

\* One round of self.wait.until: run the script, return True when the
\* document is complete, otherwise sleep one interval; TimeoutException once
\* the wait's own timeout has elapsed, answered with `return False`.
page_load_poll ==
    /\ UNCHANGED OutsideK
    /\ kpc = "waiting"
    /\ IF khealth = "crashed"
       THEN /\ kpc' = "returned"
            /\ kres' = "WebDriverException"
            /\ UNCHANGED kelapsed
       ELSE IF kready
       THEN /\ kpc' = "returned"
            /\ kres' = "True"
            /\ UNCHANGED kelapsed
       ELSE /\ kelapsed' = kelapsed + 1
            /\ IF kelapsed + 1 > PageLoadWait(ktimeout)
               THEN kpc' = "returned" /\ kres' = "False"
               ELSE kpc' = "waiting" /\ kres' = kres
    /\ UNCHANGED <<ktimeout, kready, khealth>>

\* The document finishes loading while the caller waits.
page_load_complete ==
    /\ UNCHANGED OutsideK
    /\ kpc = "waiting"
    /\ ~kready
    /\ kready' = TRUE
    /\ UNCHANGED <<kpc, ktimeout, kelapsed, khealth, kres>>

\* The browser session dies.
page_load_session_crash ==
    /\ UNCHANGED OutsideK
    /\ kpc = "waiting"
    /\ khealth = "ok"
    /\ khealth' = "crashed"
    /\ UNCHANGED <<kpc, ktimeout, kelapsed, kready, kres>>

\* The caller goes on; a later call starts from a fresh page.
page_load_return ==
    /\ UNCHANGED OutsideK
    /\ kpc = "returned"
    /\ khealth = "ok"
    /\ kpc' = "idle"
    /\ kelapsed' = 0
    /\ ktimeout' = 0
    /\ kres' = "none"
    /\ kready' = FALSE
    /\ UNCHANGED khealth

NextK ==
    \/ \E timeout \in PageLoadTimeouts : wait_for_page_load(timeout)
    \/ page_load_poll
    \/ page_load_complete
    \/ page_load_session_crash
    \/ page_load_return

(***************************************************************************)
(* Part L: WishlistPage.add_all_to_cart (pages/wishlist_page.py).  Every   *)
(* item of the page carries its own add-to-cart button.                    *)
(***************************************************************************)
MaxWishlist == 3
WishlistItems == 1..MaxWishlist

\* The items 1..n in document order.
RECURSIVE FirstItems(_)
FirstItems(n) == IF n = 0 THEN <<>> ELSE Append(FirstItems(n - 1), n)

\* get_wishlist_item_count(): `try: return len(find_elements(WISHLIST_ITEMS))
\* except Exception: return 0`
GetWishlistItemCount(items, session_state) ==
    IF session_state = "crashed" THEN 0 ELSE Len(items)

\* What the page shows after the add-to-cart button of its first item was
\* clicked.
AfterAdd(items, reacts) == IF reacts = "removes" THEN Tail(items) ELSE items

InitL ==
    /\ wlpc = "off"
    /\ wlinit = 0
    /\ wlitems = <<>>
    /\ wlreacts = "removes"
    /\ wlclicks = [it \in WishlistItems |-> 0]
    /\ wlloop = [item_count |-> 0, i |-> 0, success_count |-> 0]
    /\ wlhealth = "ok"
    /\ wlres = "none"

\* load(): the wishlist page with n items is shown.
wishlist_load(n, reacts) ==
    /\ UNCHANGED OutsideL
    /\ wlpc = "off"
    /\ wlpc' = "idle"
    /\ wlinit' = n
    /\ wlitems' = FirstItems(n)
    /\ wlreacts' = reacts
    /\ UNCHANGED <<wlclicks, wlloop, wlhealth, wlres>>

\* add_all_to_cart() is entered: `item_count = get_wishlist_item_count();
\* success_count = 0`.
add_all_to_cart ==
    /\ UNCHANGED OutsideL
    /\ wlpc = "idle"
    /\ wlpc' = "loop"
    /\ wlloop' = [item_count |-> GetWishlistItemCount(wlitems, wlhealth),
                  i |-> 0, success_count |-> 0]
    /\ UNCHANGED <<wlinit, wlitems, wlreacts, wlclicks, wlhealth, wlres>>

\* One round of `for i in range(item_count): if self.add_item_to_cart(0):
\* success_count += 1`.  add_item_to_cart(0) reads the buttons, clicks the
\* first one if there is one, waits for the page and returns True; it
\* answers every exception (a dead session, a click the driver refuses)
\* with False.
add_item_to_cart ==
    /\ UNCHANGED OutsideL
    /\ wlpc = "loop"
    /\ wlloop.i < wlloop.item_count
    /\ IF wlhealth = "crashed" \/ Len(wlitems) = 0
       THEN /\ wlloop' = [wlloop EXCEPT !.i = @ + 1]
            /\ UNCHANGED <<wlitems, wlclicks>>
       ELSE \E clicked \in BOOLEAN :
               IF clicked
               THEN /\ wlclicks' = [wlclicks EXCEPT ![wlitems[1]] = @ + 1]
                    /\ wlitems' = AfterAdd(wlitems, wlreacts)
                    /\ wlloop' = [wlloop EXCEPT !.i = @ + 1,
                                                !.success_count = @ + 1]
               ELSE /\ wlloop' = [wlloop EXCEPT !.i = @ + 1]
                    /\ UNCHANGED <<wlitems, wlclicks>>
    /\ UNCHANGED <<wlpc, wlinit, wlreacts, wlhealth, wlres>>

\* `return success_count == item_count`
add_all_return ==
    /\ UNCHANGED OutsideL
    /\ wlpc = "loop"
    /\ wlloop.i = wlloop.item_count
    /\ wlpc' = "done"
    /\ wlres' = IF wlloop.success_count = wlloop.item_count
                THEN "True" ELSE "False"
    /\ UNCHANGED <<wlinit, wlitems, wlreacts, wlclicks, wlloop, wlhealth>>

\* The browser session dies.
wishlist_session_crash ==
    /\ UNCHANGED OutsideL
    /\ wlpc \in {"idle", "loop"}
    /\ wlhealth = "ok"
    /\ wlhealth' = "crashed"
    /\ UNCHANGED <<wlpc, wlinit, wlitems, wlreacts, wlclicks, wlloop, wlres>>

NextL ==
    \/ \E n \in 0..MaxWishlist, reacts \in {"removes", "keeps"} :
          wishlist_load(n, reacts)
    \/ add_all_to_cart
    \/ add_item_to_cart
    \/ add_all_return
    \/ wishlist_session_crash

(***************************************************************************)
(* Part M: TestHelpers.verify_links_are_working (utils/helpers.py).  A     *)
(* link is known by its position in the argument.                          *)
(***************************************************************************)
MaxLinks == 3

\* The list of n links.
RECURSIVE LinkList(_)
LinkList(n) == IF n = 0 THEN <<>> ELSE Append(LinkList(n - 1), n)

\* `links[:max_links]` for max_links >= 0.
FirstLinks(links, max_links) ==
    SubSeq(links, 1, IF max_links < Len(links) THEN max_links ELSE Len(links))

\* How one round of the loop can go: which driver command raises, if any,
\* and whether the title of the page names a 404 or an error.
LinkRounds == {"current_url_raises", "get_raises",
               "working", "working_return_raises",
               "broken", "broken_return_raises"}

\* The body of the loop:
\*   try: original_url = driver.current_url; driver.get(link)
\*        if "404" not in title and "error" not in title:
\*            results["working"].append(link)
\*        else: results["broken"].append(link)
\*        driver.get(original_url)
\*   except Exception as e: results["errors"].append({"link": link, ...})
AfterRound(results, link, round) ==
    CASE round \in {"current_url_raises", "get_raises"} ->
            [results EXCEPT !.errors = Append(@, link)]
      [] round = "working" ->
            [results EXCEPT !.working = Append(@, link)]
      [] round = "working_return_raises" ->
            [results EXCEPT !.working = Append(@, link),
                            !.errors = Append(@, link)]
      [] round = "broken" ->
            [results EXCEPT !.broken = Append(@, link)]
      [] round = "broken_return_raises" ->
            [results EXCEPT !.broken = Append(@, link),
                            !.errors = Append(@, link)]

InitM ==
    /\ vpc = "idle"
    /\ vlinks = <<>>
    /\ vmax = 0
    /\ vi = 0
    /\ vresults = [working |-> <<>>, broken |-> <<>>, errors |-> <<>>]

\* verify_links_are_working(driver, links, max_links) is entered:
\* `results = {"working": [], "broken": [], "errors": []}`.
verify_links_are_working(n, max_links) ==
    /\ UNCHANGED OutsideM
    /\ vpc = "idle"
    /\ vpc' = "loop"
    /\ vlinks' = LinkList(n)
    /\ vmax' = max_links
    /\ vi' = 0
    /\ vresults' = [working |-> <<>>, broken |-> <<>>, errors |-> <<>>]

\* One round of `for i, link in enumerate(links[:max_links])`.
check_link ==
    /\ UNCHANGED OutsideM
    /\ vpc = "loop"
    /\ vi < Len(FirstLinks(vlinks, vmax))
    /\ \E round \in LinkRounds :
          vresults' = AfterRound(vresults, FirstLinks(vlinks, vmax)[vi + 1],
                                 round)
    /\ vi' = vi + 1
    /\ UNCHANGED <<vpc, vlinks, vmax>>

\* `return results`
verify_links_return ==
    /\ UNCHANGED OutsideM
    /\ vpc = "loop"
    /\ vi = Len(FirstLinks(vlinks, vmax))
    /\ vpc' = "done"
    /\ UNCHANGED <<vlinks, vmax, vi, vresults>>

NextM ==
    \/ \E n \in 0..MaxLinks, max_links \in 0..MaxLinks :
          verify_links_are_working(n, max_links)
    \/ check_link
    \/ verify_links_return

(***************************************************************************)
(* Part N: ShopPage.open_shop_page, filter_by_category, filter_by_size and *)
(* sort_products (pages/shop_page.py).                                     *)
(***************************************************************************)
\* The methods a ShopPage object has: those of BasePage and its own.
BasePageMethods ==
    {"go_to", "wait_for_page_load", "find_element", "find_elements",
     "is_element_present", "is_element_visible", "click_element",
     "send_keys_to_element", "get_element_text", "get_element_attribute",
     "scroll_to_element", "hover_over_element",
     "wait_for_element_to_disappear", "get_page_title", "get_current_url",
     "refresh_page", "go_back", "take_screenshot"}
ShopPageMethods ==
    {"open_shop_page", "is_shop_page_loaded", "get_products_count_text",
     "get_total_products_count", "get_visible_products_count",
     "get_product_names", "get_product_prices", "click_product_by_name",
     "add_first_product_to_cart", "add_product_to_cart_by_index",
     "add_product_to_wishlist_by_index", "filter_by_category",
     "filter_by_size", "sort_products", "search_products", "go_to_next_page",
     "go_to_previous_page", "go_to_page", "get_current_page_number",
     "verify_products_loaded", "verify_no_products_message"}

\* The keys of CATEGORY_FILTERS, SIZE_FILTERS and SORT_OPTIONS.
CATEGORY_FILTERS ==
    {"HEELS", "WEDGES", "BOOTS", "SANDALS", "LOAFERS", "SNEAKERS"}
SIZE_FILTERS == {"35", "36", "37", "38", "39", "40", "41", "42", "44", "46"}
SORT_OPTIONS == {"default", "rating", "latest", "price_low", "price_high"}

\* The arguments the scenarios pass.
CategoryArgs == {"HEELS", "heels", "FLATS"}
SizeArgs == {"38", "43"}
SortArgs == {"latest", "newest"}

\* category.upper() on the arguments above.
Upper(w) == IF w = "heels" THEN "HEELS" ELSE w

\* `Config.BASE_URL + "shop"`, and the page of a session that has not
\* navigated yet.
ShopUrl == <<"https://instylekenya.co.ke/", "shop">>
ShopStates ==
    [url : {<<>>, ShopUrl}, category : BOOLEAN, size : BOOLEAN,
     sort : BOOLEAN]
NoShopPage == [url |-> <<>>, category |-> FALSE, size |-> FALSE,
               sort |-> FALSE]

ShopCall(op, arg, ret, did, warned) ==
    [op |-> op, arg |-> arg, ret |-> ret, did |-> did, warned |-> warned,
     session |-> nhealth, page |-> npage]

\* The branch of a filter for a supported key: the control is clicked when
\* it is visible (the flag click_element returns is not looked at), and a
\* warning is logged otherwise; a dead session shows in is_element_visible.
FilterOutcomes(op, arg, visible) ==
    IF nhealth = "crashed"
    THEN {ShopCall(op, arg, "WebDriverException", "none", FALSE)}
    ELSE IF visible
    THEN {ShopCall(op, arg, "None", did, FALSE) : did \in {"clicked", "none"}}
    ELSE {ShopCall(op, arg, "None", "none", TRUE)}

\* sort_products(sort_type): the dropdown is looked for first, the key
\* second; a selection the driver refuses ends in the bare `except`.
SortOutcomes(sort_type) ==
    IF nhealth = "crashed"
    THEN {ShopCall("sort_products", sort_type, "WebDriverException", "none",
                   FALSE)}
    ELSE IF npage.sort
    THEN IF sort_type \in SORT_OPTIONS
         THEN {ShopCall("sort_products", sort_type, "None", "selected", FALSE),
               ShopCall("sort_products", sort_type, "None", "none", TRUE)}
         ELSE {ShopCall("sort_products", sort_type, "ValueError", "none",
                        FALSE)}
    ELSE {ShopCall("sort_products", sort_type, "None", "none", TRUE)}

InitN ==
    /\ npage = NoShopPage
    /\ nhealth = "ok"
    /\ nlog = <<>>

\* The session is taken to a page of the shop, as go_to(url) does.
shop_go_to(page) ==
    /\ UNCHANGED OutsideN
    /\ nlog = <<>>
    /\ nhealth = "ok"
    /\ npage = NoShopPage
    /\ page # NoShopPage
    /\ npage' = page
    /\ UNCHANGED <<nhealth, nlog>>

\* open_shop_page(): `self.open_url(Config.BASE_URL + "shop");
\* self.wait_for_page_load()`.  The attribute open_url is looked up on the
\* object first.
open_shop_page ==
    /\ UNCHANGED OutsideN
    /\ Len(nlog) < MaxCalls
    /\ IF "open_url" \notin BasePageMethods \cup ShopPageMethods
       THEN /\ nlog' = Append(nlog, ShopCall("open_shop_page", "",
                                             "AttributeError", "none", FALSE))
            /\ UNCHANGED npage
       ELSE IF nhealth = "crashed"
       THEN /\ nlog' = Append(nlog, ShopCall("open_shop_page", "",
                                         "WebDriverException", "none", FALSE))
            /\ UNCHANGED npage
       ELSE /\ nlog' = Append(nlog, ShopCall("open_shop_page", "", "None",
                                             "navigated", FALSE))
            /\ \E page \in ShopStates : page.url = ShopUrl /\ npage' = page
    /\ UNCHANGED nhealth

\* filter_by_category(category)
filter_by_category(category) ==
    /\ UNCHANGED OutsideN
    /\ Len(nlog) < MaxCalls
    /\ IF Upper(category) \in CATEGORY_FILTERS
       THEN \E e \in FilterOutcomes("filter_by_category", category,
                                    npage.category) :
               nlog' = Append(nlog, e)
       ELSE nlog' = Append(nlog, ShopCall("filter_by_category", category,
                                          "ValueError", "none", FALSE))
    /\ UNCHANGED <<npage, nhealth>>

\* filter_by_size(size)
filter_by_size(size) ==
    /\ UNCHANGED OutsideN
    /\ Len(nlog) < MaxCalls
    /\ IF size \in SIZE_FILTERS
       THEN \E e \in FilterOutcomes("filter_by_size", size, npage.size) :
               nlog' = Append(nlog, e)
       ELSE nlog' = Append(nlog, ShopCall("filter_by_size", size,
                                          "ValueError", "none", FALSE))
    /\ UNCHANGED <<npage, nhealth>>

\* sort_products(sort_type)
sort_products(sort_type) ==
    /\ UNCHANGED OutsideN
    /\ Len(nlog) < MaxCalls
    /\ \E e \in SortOutcomes(sort_type) : nlog' = Append(nlog, e)
    /\ UNCHANGED <<npage, nhealth>>

\* The browser session dies.
shop_session_crash ==
    /\ UNCHANGED OutsideN
    /\ nhealth = "ok"
    /\ nhealth' = "crashed"
    /\ UNCHANGED <<npage, nlog>>

NextN ==
    \/ \E page \in ShopStates : shop_go_to(page)
    \/ open_shop_page
    \/ \E category \in CategoryArgs : filter_by_category(category)
    \/ \E size \in SizeArgs : filter_by_size(size)
    \/ \E sort_type \in SortArgs : sort_products(sort_type)
    \/ shop_session_crash

Init == InitA /\ InitB /\ InitC /\ InitD /\ InitE /\ InitF /\ InitG /\ InitH /\ InitI /\ InitJ /\ InitK /\ InitL /\ InitM /\ InitN

SpecFixture == Init /\ [][NextA]_vars

SpecWait == Init /\ [][NextB]_vars

\* The calling thread keeps running: a pending poll or driver command of the
\* call in progress is eventually executed.
FairSpecWait == SpecWait /\ WF_vars(poll) /\ WF_vars(act)

SpecForm == Init /\ [][NextC]_vars

SpecCart == Init /\ [][NextD]_vars

SpecEmail == Init /\ [][NextE]_vars

SpecLocator == Init /\ [][NextF]_vars

SpecSearch == Init /\ [][NextG]_vars

SpecRunner == Init /\ [][NextH]_vars

SpecOptions == Init /\ [][NextI]_vars

SpecScreenshot == Init /\ [][NextJ]_vars

SpecPageLoad == Init /\ [][NextK]_vars

SpecWishlist == Init /\ [][NextL]_vars

SpecLinks == Init /\ [][NextM]_vars

SpecShop == Init /\ [][NextN]_vars

(***************************************************************************)
(* Claims                                                                  *)
(***************************************************************************)

\* C1: for every scenario whose session was created, quit() is called
\* exactly once, and only after the body has ended, whether the body
\* returned or raised; a scenario whose body has ended by return or raise
\* and which has finished has no open session, and quit() is never called
\* twice or while the body still runs.
C1_TeardownExactlyOnce ==
    \A s \in Scenarios :
        /\ quitCalls[s] <= 1
        /\ (phase[s] = "finished") => (quitCalls[s] = 1 /\ session[s] = "closed")
        /\ (quitCalls[s] = 1) => (phase[s] = "finished")
        /\ (phase[s] \in {"running", "returned", "raised"}) =>
              (session[s] = "open" /\ quitCalls[s] = 0)
        /\ (bodyEnd[s] # "none") => (phase[s] \in {"returned", "raised", "finished"})

\* C1 witness: a scenario whose body raised midway has finished with its
\* session quit once.
C1_Witness ==
    \E s \in Scenarios :
        /\ phase[s] = "finished"
        /\ bodyEnd[s] = "raised"
        /\ ~killed[s]
        /\ bodyPos[s] = 1
        /\ quitCalls[s] = 1
        /\ session[s] = "closed"

\* C2: a scenario that was killed after its session was created and that
\* has ended has had quit() called on its session.
C2_KilledStillQuits ==
    \A s \in Scenarios :
        (killed[s] /\ phase[s] \in {"terminated", "finished"}) => (quitCalls[s] = 1)

\* The outcome each operation reports for a wait that timed out.
IsTimeoutOutcome(op, r) ==
    CASE op = "find_element" -> r.kind = "TimeoutException"
      [] op = "find_elements" -> r.kind = "list" /\ r.elems = {}
      [] op = "get_element_text" -> r.kind = "str" /\ r.text = ""
      [] OTHER -> r.kind = "bool" /\ r.flag = FALSE

\* The outcome each operation reports after a wait that succeeded.
IsSuccessOutcome(op, r) ==
    CASE op = "find_element" -> r.kind = "element"
      [] op = "find_elements" -> r.kind = "list"
      [] op = "get_element_text" -> r.kind = "str"
      [] OTHER -> r.kind = "bool" /\ r.flag = TRUE

InputOps == {"click_element", "send_keys_to_element"}

\* C3: click_element and send_keys_to_element on a locator whose element is
\* at no moment of the call clickable return False, raise nothing, perform
\* no click, clear or key input, and evaluate the condition for the last
\* time no later than the timeout (one evaluation per poll interval).
C3_NeverClickableReturnsFalse ==
    (wop \in InputOps /\ wpc # "idle") =>
        /\ lastPoll <= wtimeout
        /\ polls <= wtimeout + 1
        /\ ~everHeld => effects = NoEffects
        /\ (wpc = "returned" /\ ~everHeld /\ health = "ok") =>
              /\ wres.kind = "bool"
              /\ wres.flag = FALSE
              /\ elapsed = wtimeout + 1
              /\ polls = wtimeout + 1

\* C3 witness: a click on an element that stayed visible but disabled has
\* returned False after the default timeout.
C3_Witness ==
    /\ wop = "click_element"
    /\ wpc = "returned"
    /\ ~everHeld
    /\ health = "ok"
    /\ dom.matches >= 1
    /\ dom.first = "visible"
    /\ wtimeout = EXPLICIT_WAIT
    /\ wres.kind = "bool"
    /\ wres.flag = FALSE

\* C4 (state part): a wait whose condition holds at an evaluation stops at
\* that evaluation, within the timeout, and the operation reports success;
\* a wait whose condition held at no evaluation stops when the timeout has
\* elapsed and the operation reports its timeout outcome.
C4_WaitStopsAtFirstHit ==
    (wpc # "idle") =>
        /\ hits <= 1
        /\ (hits = 1) => /\ wpc # "waiting"
                         /\ lastPoll = elapsed
                         /\ polls = elapsed + 1
                         /\ elapsed <= wtimeout
        /\ (hits = 0 /\ wpc = "waiting") => (polls = elapsed /\ elapsed <= wtimeout)
        /\ (wpc = "returned" /\ hits = 1 /\ wres.kind # "WebDriverException") =>
              IsSuccessOutcome(wop, wres)
        /\ (wpc = "returned" /\ hits = 0 /\ wres.kind # "WebDriverException") =>
              /\ IsTimeoutOutcome(wop, wres)
              /\ elapsed = wtimeout + 1

\* C4: every wait-based base operation terminates: a call in progress
\* always reaches its return, at the first evaluation at which its
\* condition holds or when the timeout has elapsed.
C4_BoundedWait ==
    /\ [] C4_WaitStopsAtFirstHit
    /\ \A op \in BaseOps :
          (wpc = "waiting" /\ wop = op) ~> (wpc = "returned" /\ wop = op)

\* C4 witness: is_element_visible has returned True at its third evaluation,
\* before its timeout of 5.
C4_Witness ==
    /\ wop = "is_element_visible"
    /\ wpc = "returned"
    /\ wtimeout = IS_VISIBLE_TIMEOUT
    /\ hits = 1
    /\ polls = 3
    /\ elapsed = 2
    /\ wres.kind = "bool"
    /\ wres.flag = TRUE

\* C5: find_element returns the first matching element when the locator is
\* present at an evaluation within the timeout, and raises TimeoutException
\* when it is present at none; it returns no other kind of value.
C5_FindElementReturnsOrRaises ==
    (wop = "find_element" /\ wpc = "returned") =>
        /\ wres.kind \in {"element", "TimeoutException", "WebDriverException"}
        /\ (hits = 1) => /\ wres.kind = "element"
                         /\ wres.elems = {1}
                         /\ dom.matches >= 1
                         /\ lastPoll <= wtimeout
        /\ (hits = 0 /\ health = "ok") => /\ wres.kind = "TimeoutException"
                                          /\ elapsed = wtimeout + 1
        /\ (wres.kind = "element") => hits = 1

\* C5 witness: find_element has raised on a page that never matched.
C5_Witness ==
    /\ wop = "find_element"
    /\ wpc = "returned"
    /\ ~everHeld
    /\ health = "ok"
    /\ wres.kind = "TimeoutException"
    /\ elapsed = wtimeout + 1

\* C6: find_elements returns every element that matches the locator when
\* the page is read after a successful wait, and returns the empty list,
\* raising nothing, when the locator is present at no evaluation.
C6_FindElementsAllOrEmpty ==
    (wop = "find_elements" /\ wpc = "returned") =>
        /\ wres.kind # "TimeoutException"
        /\ (health = "ok") => wres.kind = "list"
        /\ (hits = 1 /\ wres.kind = "list") => wres.elems = 1..dom.matches
        /\ (hits = 0 /\ health = "ok") => /\ wres.elems = {}
                                          /\ elapsed = wtimeout + 1

\* C6 witness: find_elements has returned two matches.
C6_Witness ==
    /\ wop = "find_elements"
    /\ wpc = "returned"
    /\ hits = 1
    /\ wres.kind = "list"
    /\ Cardinality(wres.elems) = 2

\* C7: a driver error raised by a command of a page-object operation
\* leaves the operation as an exception: the operation does not return a
\* value.
C7_SessionErrorPropagates ==
    (fpc = "done" /\ fx.driverError) => (fres = "raised")

\* The operation has run to its classification on a live session.
Classified(op) ==
    /\ fop = op
    /\ fpc = "done"
    /\ fx.submitted
    /\ fx.classified

\* C8 as claimed: success indicator first, then error indicator, then the
\* URL-change heuristic, True by default.
C8_ClaimedPriority ==
    \A op \in {"login", "register_user"} :
        Classified(op) =>
            fres = PyBool(IF site.succ THEN TRUE
                          ELSE IF site.err THEN FALSE
                          ELSE IF ~UrlContains(site.url, IF op = "login" THEN "login" ELSE "register")
                               THEN TRUE
                          ELSE TRUE)

\* C8 as amended: login looks at the URL change first and then at the error
\* indicator; register_user at the success indicator first, then the URL
\* change, then the error indicator; both return True when no signal is
\* present, and a URL change takes precedence over a visible error.
C8_CodePriority ==
    /\ Classified("login") =>
          /\ ~UrlContains(site.url, "login") => fres = "True"
          /\ (UrlContains(site.url, "login") /\ site.err) => fres = "False"
          /\ (UrlContains(site.url, "login") /\ ~site.err) => fres = "True"
    /\ Classified("register_user") =>
          /\ site.succ => fres = "True"
          /\ (~site.succ /\ ~UrlContains(site.url, "register")) => fres = "True"
          /\ (~site.succ /\ UrlContains(site.url, "register") /\ site.err) =>
                fres = "False"
          /\ (~site.succ /\ UrlContains(site.url, "register") /\ ~site.err) =>
                fres = "True"

\* C8 witness: register_user has returned True on a page that left the
\* registration URL and shows an error element and no success element.
C8_Witness ==
    /\ Classified("register_user")
    /\ site.err
    /\ ~site.succ
    /\ ~UrlContains(site.url, "register")
    /\ fres = "True"

\* C9: when login has typed both fields and clicked the button, and the
\* page has gone to a URL without "login", login returns True and the
\* current URL after the call is without "login".
C9_RedirectedLoginReturnsTrue ==
    (/\ fop = "login"
     /\ fpc = "done"
     /\ {"email", "password"} \subseteq fx.typed
     /\ fx.submitted
     /\ ~fx.driverError
     /\ ~UrlContains(site.url, "login")) =>
        /\ fres = "True"
        /\ fx.classified
        /\ site.url \in SiteUrls \ {LoginUrl, CapsLoginUrl}

\* C9 witness: a login accepted by the site and redirected to the account
\* page has returned True.
C9_Witness ==
    /\ Classified("login")
    /\ site.verdict = "accepted"
    /\ site.url = AccountUrl
    /\ {"email", "password"} \subseteq fx.typed
    /\ fres = "True"

\* C10 (first part): login submitted, the page stays on a "login" URL and
\* shows an error element: login returns False and a following
\* get_error_message() on the live session returns the element's text.
C10_ShownErrorIsReported ==
    (Classified("login") /\ UrlContains(site.url, "login") /\ site.err) =>
        /\ fres = "False"
        /\ (gem.called /\ fhealth = "ok") =>
              (gem.text = site.errText /\ gem.text \in ErrorTexts)

StillPage(k) ==
    \A j \in k..Len(clog) : ~(clog[j].op = "remove_item" /\ clog[j].did = "clicked")

\* C11: with the session alive, add_to_cart() returns True whenever it
\* clicked the add-to-cart button, with or without a success message on the
\* page, and returns False only when it clicked nothing because the button
\* was not clickable within the timeout.
C11_AddToCartOptimistic ==
    chealth = "ok" =>
        \A k \in 1..Len(clog) :
            (clog[k].op = "add_to_cart" /\ clog[k].ret # "running") =>
                /\ clog[k].did = "clicked" => clog[k].ret = "True"
                /\ clog[k].ret = "False" =>
                       (clog[k].did = "none" /\ cpage.addButton = "blocked")
                /\ clog[k].ret \in {"True", "False"}

\* add_to_cart() clicked, no success message appeared, and it returned True.
C11_Witness ==
    /\ chealth = "ok"
    /\ Len(clog) > 0
    /\ clog[Len(clog)].op = "add_to_cart"
    /\ clog[Len(clog)].did = "clicked"
    /\ clog[Len(clog)].ret = "True"
    /\ ~cpage.success

\* Call k is is_cart_empty() returning `empty`, call k+1 is `next`, made on
\* the page still shown, and it returned.
EmptyThen(k, empty, next) ==
    /\ clog[k].op = "is_cart_empty"
    /\ clog[k].ret = empty
    /\ clog[k + 1].op = next
    /\ clog[k + 1].ret # "raised"
    /\ StillPage(k)

C13_NonEmptyCartHasItems ==
    chealth = "ok" =>
        \A k \in 1..(Len(clog) - 1) :
            EmptyThen(k, "False", "get_cart_items") => clog[k + 1].n >= 1

\* C14: with the session alive, when remove_item(0) returned True on a
\* non-empty cart, get_cart_item_count() right after it is strictly smaller
\* than get_cart_item_count() right before it.
C14_RemovedMeansFewer ==
    chealth = "ok" =>
        \A k \in 1..(Len(clog) - 2) :
            ( /\ clog[k].op = "get_cart_item_count"
              /\ clog[k].n > 0
              /\ clog[k + 1].op = "remove_item"
              /\ clog[k + 1].arg = 0
              /\ clog[k + 1].ret = "True"
              /\ clog[k + 2].op = "get_cart_item_count" )
            => clog[k + 2].n < clog[k].n

CartScenarios == {"test_cart_item_display", "test_cart_item_details_display"}

\* C15: a cart scenario that found the cart empty ends as "skipped", not as
\* "passed" or "failed", and no scenario ends as passed with no assertion
\* evaluated.
C15_UnmetPreconditionSkips ==
    (Len(clog) = 1 /\ clog[1].op \in CartScenarios) =>
        /\ IsCartEmpty(cpage) => clog[1].ret = "skipped"
        /\ ~(clog[1].ret = "passed" /\ clog[1].n = 0)


\* C16: no two scenarios submit the same generated e-mail address, whether
\* they ran one after the other or at the same time in two workers.
C16_GeneratedEmailsUnique ==
    \A i, j \in 1..Len(sent) :
        i # j => sent[i].email # sent[j].email


\* C17: a lookup by a locator constant matches whenever one of its
\* alternatives selects an element of the page: find_element returns the
\* element and is_element_present returns True.
C17_AnyAlternativeMatches ==
    (\E i \in lmatch : Alternatives(lloc)[i] = "css") =>
        /\ lop = "find_element" => lres = "element"
        /\ lop = "is_element_present" => lres = "True"


\* C18: with the session alive, search_for_product returns True when the
\* term was typed and the search was submitted by a click on the search
\* button or by Enter in the search box, and False when the box never took
\* the text; when the page shown afterwards has a URL containing "search",
\* is_loaded() returns True.
C18_SearchOutcome ==
    (shealth = "ok" /\ spc = "done") =>
        /\ (sfx.typed /\ (sfx.clicked \/ sfx.entered)) => sres = "True"
        /\ ~sfx.typed => sres = "False"
        /\ sfx.entered => ~sfx.clicked
        /\ (sloaded # "none" /\ \E i \in 1..Len(spage.url) :
                                    spage.url[i] = "search")
               => sloaded = "True"

\* The button was not clickable, Enter submitted the typed term, the search
\* returned True and the search URL alone made is_loaded() True.
C18_Witness ==
    /\ shealth = "ok"
    /\ spc = "done"
    /\ sfx.typed
    /\ sfx.entered
    /\ sres = "True"
    /\ spage.url = <<"search">>
    /\ ~spage.grid
    /\ ~spage.noResults
    /\ sloaded = "True"


\* The runner validated the environment or went on to launch pytest.
TriedToRunTests ==
    \E i \in 1..Len(rtrace) :
        rtrace[i] \in {"validate_ok", "validate_failed", "pytest",
                       "launch_failed"}

\* C19: a run that launches or tries to launch tests exits with status 0
\* exactly when pytest was launched and returned code 0; it exits non-zero
\* when pytest returned another code, was interrupted, could not be
\* started, or the environment validation failed.
C19_ExitStatusFollowsPytest ==
    (rpc = "exited" /\ TriedToRunTests) =>
        /\ rexit = 0 <=> (rrun.kind = "returned" /\ rrun.rc = 0)
        /\ rrun.kind \in {"interrupted", "not_started"} => rexit # 0
        /\ rrun.kind = "none" => (rtrace[Len(rtrace)] = "validate_failed"
                                  /\ rexit # 0)

\* pytest ran, some tests failed (return code 1), and the runner exited
\* with a non-zero status.
C19_Witness ==
    /\ rpc = "exited"
    /\ rrun = [kind |-> "returned", rc |-> 1]
    /\ rtrace[Len(rtrace)] = "pytest"
    /\ rexit = 1

\* C20: started without flags the runner only prints the help and exits
\* with status 0: no validation, no directory created, no pytest; started
\* with flags it launches pytest only after a validation of the environment
\* that succeeded, and never after one that failed.
C20_HelpOrValidateFirst ==
    /\ (rargs.kind = "none" /\ rpc = "exited") =>
           (rtrace = <<"help">> /\ rexit = 0 /\ rrun.kind = "none")
    /\ rargs.kind = "none" =>
           \A i \in 1..Len(rtrace) : rtrace[i] = "help"
    /\ \A i \in 1..Len(rtrace) :
           rtrace[i] \in {"pytest", "launch_failed"} =>
               /\ i > 1
               /\ rtrace[i - 1] = "validate_ok"
               /\ \A j \in 1..Len(rtrace) : rtrace[j] # "validate_failed"
    /\ \A i \in 1..Len(rtrace) :
           rtrace[i] = "validate_failed" => i = Len(rtrace)

\* Started with flags in a directory without reports/: the directory was
\* created during the validation, and pytest was launched after it.
C20_Witness ==
    /\ rargs.kind = "flags"
    /\ rtrace = <<"makedirs", "validate_ok", "pytest">>
    /\ renv.reports


\* How often argument a occurs in the argument list s.
Occurrences(s, a) == Cardinality({i \in DOMAIN s : s[i] = a})

\* C21: get_browser_options(name) returns the base list of `name` followed by
\* one "--headless" when headless is on and the name is chrome or firefox, the
\* base list itself when headless is off, and the empty list for every other
\* name; two calls with the same name return equal lists.
C21_OptionsPerCall ==
    /\ \A i \in DOMAIN olog :
          LET name == olog[i].browser_name
              args == olog[i].arguments
          IN  IF name \in {"chrome", "firefox"}
              THEN /\ args = OptionsDict[name] \o
                             (IF oheadless THEN <<"--headless">> ELSE <<>>)
                   /\ Occurrences(args, "--headless") =
                         (IF oheadless THEN 1 ELSE 0)
              ELSE args = <<>>
    /\ \A i, j \in DOMAIN olog :
          olog[i].browser_name = olog[j].browser_name
             => olog[i].arguments = olog[j].arguments

\* A later call for chrome with headless on, after calls for chrome and firefox.
C21_Witness ==
    /\ oheadless
    /\ Len(olog) = MaxCalls
    /\ olog[1].browser_name = "chrome"
    /\ olog[2].browser_name = "firefox"
    /\ olog[MaxCalls].browser_name = "chrome"
    /\ Occurrences(olog[MaxCalls].arguments, "--headless") = 1

\* C22: the screenshots directory is created on demand: after every
\* take_screenshot(filename) on a live session the directory screenshots/
\* exists, the screenshot is written and the call returned
\* screenshots/<filename>.
C22_ScreenshotsDirOnDemand ==
    \A i \in DOMAIN jlog :
       jlog[i].health = "ok"
          => /\ jlog[i].dir
             /\ jlog[i].written
             /\ jlog[i].ret = <<"screenshots", "/", jlog[i].filename>>

\* C23: wait_for_page_load(timeout=T) waits at most T seconds (one poll
\* interval of slack): it has returned by the time T has elapsed, with False
\* only once T has elapsed and with True only for a document that was
\* complete within T.
C23_WaitsAtMostTimeout ==
    /\ kpc \in {"waiting", "returned"} => kelapsed <= ktimeout + 1
    /\ kpc = "returned" /\ kres = "False" => kelapsed = ktimeout + 1
    /\ kpc = "returned" /\ kres = "True" => kready /\ kelapsed <= ktimeout

\* The inputs each operation cannot do without.
RequiredInputs ==
    [login |-> {"email", "password"}, register_user |-> {"email", "password"},
     reset_password |-> {"email"}]

\* C24: in login, register_user and reset_password the submit button is
\* clicked only after every required input has been typed; when typing into a
\* required field fails the operation returns False with the button not
\* clicked, and no click follows in that call; the page-load wait comes only
\* after the click and the classification only after the click and the wait.
C24_SubmitAfterRequiredInputs ==
    [][fop' \in DOMAIN RequiredInputs =>
         /\ (~fx.submitted /\ fx'.submitted)
               => /\ fop' = fop
                  /\ RequiredInputs[fop] \subseteq fx.typed
                  /\ ~fx.waited /\ ~fx.classified
         /\ (fop' = fop /\ fpc \in RequiredInputs[fop] /\ fpc' = "done"
                /\ ~fx'.driverError)
               => /\ fres' = "False"
                  /\ ~fx'.submitted
                  /\ fpc \notin fx'.typed
         /\ (fpc = "done" /\ fpc' = "done") => fx'.submitted = fx.submitted
         /\ (~fx.waited /\ fx'.waited) => fx.submitted
         /\ (~fx.classified /\ fx'.classified) => fx.submitted /\ fx.waited
      ]_vars

\* A login whose password could not be typed has returned False without a
\* click on the button.
C24_Witness ==
    /\ fop = "login"
    /\ fpc = "done"
    /\ fres = "False"
    /\ fx.typed = {"email"}
    /\ ~fx.driverError
    /\ ~fx.submitted

\* C25: login(..., remember_me=True) submits the form with the remember-me
\* checkbox selected whenever the checkbox is present, whatever its state
\* before the call; with remember_me=False the checkbox goes out as it was.
C25_RememberMeSelectedAtSubmit ==
    (fop = "login" /\ fx.submitted) =>
       /\ (fargs.remember_me /\ fx.boxAtEntry # "absent")
             => fx.boxAtSubmit = "checked"
       /\ ~fargs.remember_me => fx.boxAtSubmit = fx.boxAtEntry

\* C26: on a live session add_all_to_cart() returns True only if every item
\* that was in the wishlist when it was called has had its own add-to-cart
\* button clicked exactly once, whether the site removes an added item or
\* keeps it, and the loop has run once per initial item.
C26_TrueMeansEveryItemAdded ==
    (wlpc = "done" /\ wlres = "True" /\ wlhealth = "ok") =>
       /\ \A it \in 1..wlinit : wlclicks[it] = 1
       /\ wlloop.i = wlinit

\* C27: an index-addressed operation of the cart page called with an index
\* outside 0..n-1, n the number of its buttons on the page, negative indexes
\* included, returns False and clicks nothing: the page stays as it was.
C27_BadIndexReturnsFalse ==
    [][( /\ Len(clog') = Len(clog) + 1
         /\ clog'[Len(clog')].op = "remove_item"
         /\ clog'[Len(clog')].arg \notin 0..(cpage.buttons - 1) )
       => /\ clog'[Len(clog')].ret = "False"
          /\ clog'[Len(clog')].did = "none"
          /\ cpage' = cpage]_vars

\* The positions of list s that hold link l.
Holding(s, l) == {k \in DOMAIN s : s[k] = l}

\* C28: verify_links_are_working(driver, links, max_links) deals with the
\* first max_links links only and records each of them in exactly one of
\* working, broken and errors, so that the three lists together hold
\* min(len(links), max_links) entries, whichever driver command fails.
C28_EachLinkInOneList ==
    vpc = "done" =>
       LET checked == IF vmax < Len(vlinks) THEN vmax ELSE Len(vlinks)
       IN  /\ Len(vresults.working) + Len(vresults.broken)
                + Len(vresults.errors) = checked
           /\ \A l \in 1..checked :
                 Cardinality(Holding(vresults.working, l))
                    + Cardinality(Holding(vresults.broken, l))
                    + Cardinality(Holding(vresults.errors, l)) = 1

\* C29: filter_by_category, filter_by_size and sort_products answer a key
\* that is not supported ("FLATS", "43", "newest") with ValueError in every
\* state of the page and select nothing; for a supported key whose control
\* is not visible they return with a warning and select nothing.
C29_UnsupportedKeyRaises ==
    \A k \in DOMAIN nlog :
       LET e == nlog[k]
           control == CASE e.op = "filter_by_category" -> e.page.category
                        [] e.op = "filter_by_size" -> e.page.size
                        [] OTHER -> e.page.sort
       IN  (e.op # "open_shop_page" /\ e.session = "ok") =>
              IF e.arg \in {"FLATS", "43", "newest"}
              THEN e.ret = "ValueError" /\ e.did = "none"
              ELSE ~control => (e.ret = "None" /\ e.warned /\ e.did = "none")

\* C30: open_shop_page() on a live session raises nothing and leaves the
\* session on the shop URL, the base URL followed by "shop".
C30_OpenShopPageNavigates ==
    \A k \in DOMAIN nlog :
       (nlog[k].op = "open_shop_page" /\ nlog[k].session = "ok") =>
          /\ nlog[k].ret = "None"
          /\ nlog[k].did = "navigated"
          /\ npage.url = <<"https://instylekenya.co.ke/", "shop">>

====
